---- MODULE Spec2Model ----
(***************************************************************************)
(* Model of the MATLAB extension's remote evaluation session (MVM,         *)
(* src/src/commandwindow/MVM.ts) and of the command window line editor     *)
(* (CommandWindow, src/src/commandwindow/CommandWindow.ts).                *)
(*                                                                         *)
(* Strings are sequences of one-character strings.  Promises are modelled  *)
(* by their settlement state; the continuations attached with .then() are  *)
(* queues that run as micro-tasks before the next notification is handled. *)
(***************************************************************************)
EXTENDS Integers, Sequences, FiniteSets, TLC

(***************************************************************************)
(* Bounds                                                                  *)
(***************************************************************************)
\* number of requests (eval/feval/breakpoint) issued in one behaviour
MaxRequests == 2
\* number of response notifications delivered in one behaviour (duplicates included)
MaxDeliveries == 2

\* number of characters the command window holds (history entries and line)
MaxChars == 3
\* number of completion requests sent in one behaviour
MaxTabRequests == 2
\* the last line of a document with sections
MaxLine == 3
\* number of sections of a document
MaxSections == 3
\* number of requests the debug adaptors dispatch in one behaviour
MaxDebugRequests == 2

(***************************************************************************)
(* MVM state                                                               *)
(***************************************************************************)
VARIABLES
    currentState,       \* MVM._currentState
    pendingUserEvals,   \* MVM._pendingUserEvals
    requestMap,         \* MVM._requestMap: request id -> [isUserEval]
    readyPromise,       \* settlement state of MVM._currentReadyPromise
    thenQueue,          \* request ids whose send waits on the current ready promise
    microtasks,         \* request ids whose send continuation is queued to run
    promiseState,       \* request id -> settlement state of the returned promise
    nextId,             \* next request id handed out by _getNewRequestId
    sent,               \* request notifications handed to the notifier, in order
    reqInfo,            \* per request: kind, flag, state at issue, history of the request
    deliveries,         \* number of response notifications handled so far
    answeredOnce,       \* no request of the request table has been answered twice
    lastOp              \* the operation performed by the last step

mvmVars == <<currentState, pendingUserEvals, requestMap, readyPromise, thenQueue,
             microtasks, promiseState, nextId, sent, reqInfo, deliveries, answeredOnce>>

VARIABLES
    cw,         \* the CommandWindow object
    nav,        \* what has happened since the last typing or Enter
    scenarioB   \* the commands submitted so far, while they are distinct and non-empty

cwVars == <<cw, nav, scenarioB>>

VARIABLES
    tree,       \* the LineRangeTree object
    findLine,   \* the line of the last find call, Undefined before the first
    findResult  \* what the last find call returned

treeVars == <<tree, findLine, findResult>>

VARIABLE
    term        \* the terminal that shows what the command window writes

VARIABLE
    debug       \* the debug adaptors, what they sent and what they forwarded

VARIABLES
    calls,      \* request id -> who called eval or feval, and what with
    observed,   \* what the stateChanged listeners saw when they were last called
    commands    \* the execution commands run so far: where each one is in its
                \* code and the request whose promise it awaits

VARIABLES
    service,    \* the TerminalService object and the terminals of the window
    debugging   \* MVM._isCurrentlyDebugging and the notifications that set it

serviceVars == <<service, debugging>>

callVars == <<debug, calls, observed, commands, serviceVars>>

sideVars == <<treeVars, term, callVars>>

vars == <<mvmVars, cwVars, lastOp, sideVars>>

DISCONNECTED == "disconnected"
READY == "ready"
BUSY == "busy"
MatlabState == {DISCONNECTED, READY, BUSY}

RequestKinds == {"eval", "feval", "setBreakpoint", "clearBreakpoint"}

Ids == 1..MaxRequests
Issued == 1..(nextId - 1)

Op(name, id) == [name |-> name, id |-> id]

(***************************************************************************)
(* MVM.getMatlabState                                                      *)
(***************************************************************************)
getMatlabState ==
    IF currentState = DISCONNECTED
    THEN currentState
    ELSE IF pendingUserEvals > 0 THEN BUSY ELSE READY

(***************************************************************************)
(* Promise helpers: settling an already settled promise has no effect.     *)
(***************************************************************************)
Settle(state, outcome) == IF state = "pending" THEN outcome ELSE state

\* a send that does not wait for the ready promise
AttachSend_Immediate(id) ==
    /\ microtasks' = Append(microtasks, id)
    /\ UNCHANGED thenQueue

\* the continuation of _currentReadyPromise.then(send, ignore) for request id
AttachSend(id) ==
    IF readyPromise = "resolved"
    THEN /\ microtasks' = Append(microtasks, id)
         /\ UNCHANGED thenQueue
    ELSE /\ thenQueue' = Append(thenQueue, id)
         /\ UNCHANGED microtasks

(***************************************************************************)
(* Common body of eval / feval / setBreakpoint / clearBreakpoint           *)
(***************************************************************************)
\* every request counted as a user eval
pendingAfterRequest_CountAll(isUserEval) == pendingUserEvals + 1

pendingAfterRequest(isUserEval) ==
    IF isUserEval THEN pendingUserEvals + 1 ELSE pendingUserEvals

Request(kind, isUserEval) ==
    /\ nextId <= MaxRequests
    /\ LET requestId == nextId IN
        /\ nextId' = nextId + 1
        /\ requestMap' = [id \in (DOMAIN requestMap) \cup {requestId} |->
                            IF id = requestId THEN [isUserEval |-> isUserEval]
                            ELSE requestMap[id]]
        /\ promiseState' = [id \in (DOMAIN promiseState) \cup {requestId} |->
                            IF id = requestId THEN "pending" ELSE promiseState[id]]
        /\ pendingUserEvals' = pendingAfterRequest(isUserEval)
        /\ AttachSend(requestId)
        /\ reqInfo' = [id \in (DOMAIN reqInfo) \cup {requestId} |->
                            IF id = requestId
                            THEN [kind |-> kind, isUserEval |-> isUserEval,
                                  deferred |-> (currentState = DISCONNECTED),
                                  connectedSince |-> FALSE, dropped |-> FALSE,
                                  answered |-> FALSE]
                            ELSE reqInfo[id]]
        /\ lastOp' = Op("request", requestId)
    /\ UNCHANGED <<currentState, readyPromise, sent, deliveries, answeredOnce>>
    /\ UNCHANGED <<cwVars, sideVars>>

eval(isUserEval) == Request("eval", isUserEval)

feval == Request("feval", FALSE)

setBreakpoint == Request("setBreakpoint", FALSE)

clearBreakpoint == Request("clearBreakpoint", FALSE)

(***************************************************************************)
(* The continuation attached in eval/feval/...: send the request           *)
(***************************************************************************)
SendRequest ==
    /\ microtasks # <<>>
    /\ LET id == Head(microtasks) IN
        /\ sent' = Append(sent, id)
        /\ lastOp' = Op("send", id)
    /\ microtasks' = Tail(microtasks)
    /\ UNCHANGED <<currentState, pendingUserEvals, requestMap, readyPromise, thenQueue,
                   promiseState, nextId, reqInfo, deliveries, answeredOnce>>
    /\ UNCHANGED <<cwVars, sideVars>>

(***************************************************************************)
(* MVM._handleDisconnection and MVM._handleMatlabStateChange               *)
(***************************************************************************)
\* a disconnection that forgets to reject the outstanding promises
rejectAll_Forget(map) == promiseState

rejectAll(map) ==
    [id \in DOMAIN promiseState |->
        IF id \in DOMAIN map THEN Settle(promiseState[id], "rejected")
        ELSE promiseState[id]]

emptyMap == [id \in {} |-> [isUserEval |-> FALSE]]

WasSent(id) == \E i \in 1..Len(sent) : sent[i] = id

\* a disconnection that moves the waiting continuations to the new ready promise
rejectReady_KeepWaiting(queue) == queue

\* oldPromise.reject(): the continuations waiting on the old ready promise
\* take their rejection branch, which ignores it; none waits on the new one
rejectReady(queue) == <<>>

mvmHandleMatlabStateChange(newState) ==
    /\ microtasks = <<>>
    /\ currentState' = newState
    /\ IF newState = DISCONNECTED
       THEN \* _handleDisconnection
            /\ readyPromise' = "pending"
            /\ thenQueue' = rejectReady(thenQueue)
            /\ requestMap' = emptyMap
            /\ promiseState' = rejectAll(requestMap)
            /\ pendingUserEvals' = 0
            /\ UNCHANGED microtasks
       ELSE /\ pendingUserEvals' = 0
            /\ readyPromise' = Settle(readyPromise, "resolved")
            /\ microtasks' = IF readyPromise = "pending" THEN thenQueue ELSE microtasks
            /\ thenQueue' = <<>>
            /\ UNCHANGED <<requestMap, promiseState>>
    /\ reqInfo' = [id \in DOMAIN reqInfo |->
                    [reqInfo[id] EXCEPT !.connectedSince = @ \/ newState # DISCONNECTED,
                                        !.dropped = @ \/ (newState = DISCONNECTED
                                                          /\ ~WasSent(id))]]
    /\ answeredOnce' = (answeredOnce \/ newState = DISCONNECTED)
    /\ UNCHANGED <<nextId, sent, deliveries>>

\* the session without a listener attached
handleMatlabStateChange(newState) ==
    /\ mvmHandleMatlabStateChange(newState)
    /\ lastOp' = Op("stateChange", 0)
    /\ UNCHANGED <<cwVars, sideVars>>

(***************************************************************************)
(* MVM._handleEvalResponse, _handleFevalResponse, _handleBreakpointResponse*)
(***************************************************************************)
pendingAfterResponse(id) ==
    IF requestMap[id].isUserEval THEN pendingUserEvals - 1 ELSE pendingUserEvals

\* the handler of a response notification for request id
handleResponse(kind, id, countsUserEval) ==
    /\ microtasks = <<>>
    /\ id \in Issued
    /\ WasSent(id)
    /\ reqInfo[id].kind \in kind
    /\ deliveries' = deliveries + 1
    /\ reqInfo' = [reqInfo EXCEPT ![id].answered = TRUE]
    /\ lastOp' = Op("response", id)
    /\ IF id \notin DOMAIN requestMap
       THEN UNCHANGED <<pendingUserEvals, promiseState, answeredOnce>>
       ELSE /\ pendingUserEvals' = IF countsUserEval THEN pendingAfterResponse(id)
                                   ELSE pendingUserEvals
            /\ promiseState' = [promiseState EXCEPT ![id] = Settle(@, "resolved")]
            /\ answeredOnce' = (answeredOnce /\ ~reqInfo[id].answered)
    /\ UNCHANGED <<currentState, requestMap, readyPromise, thenQueue, microtasks, nextId, sent>>
    /\ UNCHANGED <<cwVars, sideVars>>

\* a response notification, while the number of deliveries allows one more
Response(kind, id, countsUserEval) ==
    /\ deliveries < MaxDeliveries
    /\ handleResponse(kind, id, countsUserEval)

handleEvalResponse(id) == Response({"eval"}, id, TRUE)

handleFevalResponse(id) == Response({"feval"}, id, TRUE)

handleBreakpointResponse(id) ==
    Response({"setBreakpoint", "clearBreakpoint"}, id, FALSE)

(***************************************************************************)
(* Strings: sequences of one-character strings                             *)
(***************************************************************************)
Alphabet == {"a", "A", "b", " "}
CR == "\r"
LF == "\n"
Whitespace == {" ", CR, LF, "\t"}

\* the character \x07
BEL == "BEL"

\* the characters below the space other than CR and LF
ControlChars == {"\t", BEL}

lowerOf(c) == IF c = "A" THEN "a" ELSE IF c = "K" THEN "k" ELSE c

\* String.prototype.toLowerCase
toLowerCase(str) == [i \in 1..Len(str) |-> lowerOf(str[i])]

\* a prefix test that compares the characters as they are
startsWith_CaseSensitive(str, prefix) ==
    /\ Len(prefix) <= Len(str)
    /\ \A i \in 1..Len(prefix) : str[i] = prefix[i]

\* String.prototype.startsWith
startsWith(str, prefix) ==
    /\ Len(prefix) <= Len(str)
    /\ SubSeq(str, 1, Len(prefix)) = prefix

\* String.prototype.slice(start), String.prototype.substring(start)
sliceFrom(str, start) == SubSeq(str, start + 1, Len(str))

\* String.prototype.slice(start, end), String.prototype.substring(start, end)
slice(str, start, end) == SubSeq(str, start + 1, end)

RECURSIVE trimStart(_)
trimStart(str) ==
    IF str # <<>> /\ Head(str) \in Whitespace THEN trimStart(Tail(str)) ELSE str

RECURSIVE trimEnd(_)
trimEnd(str) ==
    IF str # <<>> /\ str[Len(str)] \in Whitespace
    THEN trimEnd(SubSeq(str, 1, Len(str) - 1)) ELSE str

\* String.prototype.trim
trim(str) == trimEnd(trimStart(str))

\* data.replace(/\r\n?/g, '\n')
RECURSIVE normalizeNewlines(_)
normalizeNewlines(data) ==
    IF data = <<>> THEN <<>>
    ELSE IF Head(data) = CR
         THEN IF Len(data) > 1 /\ data[2] = LF
              THEN <<LF>> \o normalizeNewlines(sliceFrom(data, 2))
              ELSE <<LF>> \o normalizeNewlines(Tail(data))
         ELSE <<Head(data)>> \o normalizeNewlines(Tail(data))

\* data.split('\n')
RECURSIVE split(_)
split(data) ==
    IF \A i \in 1..Len(data) : data[i] # LF THEN <<data>>
    ELSE LET k == CHOOSE i \in 1..Len(data) :
                    data[i] = LF /\ \A j \in 1..(i - 1) : data[j] # LF
         IN <<SubSeq(data, 1, k - 1)>> \o split(sliceFrom(data, k))

(***************************************************************************)
(* Command window constants                                                *)
(***************************************************************************)
IDLE_PROMPT == <<">", ">", " ">>
DEBUG_PROMPT == <<"K", ">", ">", " ">>
FAKE_INPUT_PROMPT == <<"?", " ">>
BUSY_PROMPT == <<>>

PromptState == {"INITIALIZING", "READY", "BUSY", "DEBUG", "INPUT", "PAUSE", "MORE",
                "COMPLETING_BLOCK"}

ACTION_KEYS == {"LEFT", "RIGHT", "UP", "DOWN", "SHIFT_LEFT", "SHIFT_RIGHT", "HOME", "END",
                "SHIFT_HOME", "SHIFT_END", "BACKSPACE", "BACKSPACE_ALTERNATIVE",
                "SELECT_ALL", "DELETE", "ESCAPE", "TAB", "SHIFT_TAB", "COPY", "PASTE"}

Undefined == 0 - 1
\* the value of an arithmetic expression that has no numeric value
NaN == 0 - 2
\* this._latestTabCompletionData while it is undefined
NoCompletionData == [defined |-> FALSE, items |-> <<>>]
NoDimensions == [rows |-> 0, columns |-> 0]
DefaultRows == 30
DefaultColumns == 100

BACKWARDS == "BACKWARDS"
FORWARDS == "FORWARDS"
MOVE == "MOVE"
KEEP == "KEEP"

(***************************************************************************)
(* CommandWindow helpers                                                   *)
(***************************************************************************)
invalidateCompletionData(w) ==
    [w EXCEPT !.latestTabCompletionData = NoCompletionData,
              !.pendingTabCompletionPromise = "undefined"]

getMaxIndexOnLine(w) == Len(w.currentPromptLine) - Len(w.currentPrompt)

getAbsoluteIndexOnLine(w, index) == index + Len(w.currentPrompt)

stripCurrentPrompt(w) == sliceFrom(w.currentPromptLine, Len(w.currentPrompt))

updateWhetherJustTypedInLastColumn(w) ==
    [w EXCEPT !.justTypedLastInColumn =
        (getAbsoluteIndexOnLine(w, w.cursorIndex) % w.terminalDimensions.columns = 0)]

setToEmptyPrompt(w) ==
    updateWhetherJustTypedInLastColumn(
        [w EXCEPT !.currentPromptLine = w.currentPrompt,
                  !.lastKnownCurrentLine = <<>>,
                  !.cursorIndex = 0,
                  !.anchorIndex = Undefined])

clearState(w) == [setToEmptyPrompt(w) EXCEPT !.lastSentTerminalDimensions = NoDimensions]

clear(w) == setToEmptyPrompt(w)

\* a filter that distinguishes upper and lower case
historyMatches_CaseSensitive(cmd, commandHistoryFilter) ==
    startsWith_CaseSensitive(cmd, commandHistoryFilter)

historyMatches(cmd, commandHistoryFilter) ==
    startsWith(toLowerCase(cmd), toLowerCase(commandHistoryFilter))

\* this._rawCommandHistory.filter(cmd => ...)
RECURSIVE filterHistory(_, _)
filterHistory(history, commandHistoryFilter) ==
    IF history = <<>> THEN <<>>
    ELSE (IF historyMatches(Head(history), commandHistoryFilter)
          THEN <<Head(history)>> ELSE <<>>)
         \o filterHistory(Tail(history), commandHistoryFilter)

\* a change of the line that filters the history again and leaves the
\* position in it where it was
markCurrentLineChanged_KeepIndex(w) ==
    LET commandHistoryFilter == stripCurrentPrompt(w)
    IN [w EXCEPT !.filteredCommandHistory =
                     IF commandHistoryFilter # <<>>
                     THEN filterHistory(w.rawCommandHistory, commandHistoryFilter)
                     ELSE w.rawCommandHistory,
                 !.lastKnownCurrentLine = <<>>]

markCurrentLineChanged(w) ==
    LET commandHistoryFilter == stripCurrentPrompt(w)
        filtered == IF commandHistoryFilter # <<>>
                    THEN filterHistory(w.rawCommandHistory, commandHistoryFilter)
                    ELSE w.rawCommandHistory
    IN [w EXCEPT !.filteredCommandHistory = filtered,
                 !.historyIndex = Len(filtered),
                 !.lastKnownCurrentLine = <<>>]

replaceCurrentLineWithNewLine(w, updatedLine) ==
    LET w1 == [w EXCEPT !.currentPromptLine = updatedLine]
        w2 == [w1 EXCEPT !.cursorIndex = getMaxIndexOnLine(w1),
                         !.anchorIndex = Undefined]
    IN updateWhetherJustTypedInLastColumn(w2)

\* a history lookup that forgets the saved live line
getHistoryItem_Empty(w, n) ==
    IF w.historyIndex < Len(w.filteredCommandHistory)
    THEN w.filteredCommandHistory[n + 1]
    ELSE <<>>

getHistoryItem(w, n) ==
    IF w.historyIndex < Len(w.filteredCommandHistory)
    THEN w.filteredCommandHistory[n + 1]
    ELSE w.lastKnownCurrentLine

\* a step that takes the two directions for each other
historyStep_Reversed(direction) == IF direction = BACKWARDS THEN 1 ELSE 0 - 1

historyStep(direction) == IF direction = BACKWARDS THEN 0 - 1 ELSE 1

handleNavigateHistory(w, direction) ==
    LET isAtEnd == w.historyIndex = Len(w.filteredCommandHistory)
        isAtBeginning == w.historyIndex = 0
    IN IF (direction = BACKWARDS /\ isAtBeginning) \/ (direction = FORWARDS /\ isAtEnd)
       THEN w
       ELSE LET w1 == IF isAtEnd
                      THEN [w EXCEPT !.lastKnownCurrentLine = stripCurrentPrompt(w)]
                      ELSE w
                w2 == [w1 EXCEPT !.historyIndex = @ + historyStep(direction)]
                line == getHistoryItem(w2, w2.historyIndex)
            IN replaceCurrentLineWithNewLine(w2, w2.currentPrompt \o line)

possiblyUpdateAnchorForCursorChange(w, policy) ==
    IF policy = MOVE /\ w.anchorIndex # Undefined
    THEN [w EXCEPT !.anchorIndex = Undefined]
    ELSE IF policy = KEEP /\ w.anchorIndex = Undefined
         THEN [w EXCEPT !.anchorIndex = w.cursorIndex]
         ELSE w

handleEnd(w, anchorPolicy) ==
    LET w1 == possiblyUpdateAnchorForCursorChange(w, anchorPolicy)
    IN [w1 EXCEPT !.cursorIndex = getMaxIndexOnLine(w1)]

handleHome(w, anchorPolicy) ==
    LET w1 == possiblyUpdateAnchorForCursorChange(w, anchorPolicy)
    IN [w1 EXCEPT !.cursorIndex = 0]

handleLeftRight(w, direction, anchorPolicy) ==
    LET w1 == IF direction = "LEFT" /\ w.cursorIndex # 0
              THEN [possiblyUpdateAnchorForCursorChange(
                        [w EXCEPT !.justTypedLastInColumn = FALSE], anchorPolicy)
                    EXCEPT !.cursorIndex = @ - 1]
              ELSE w
        w2 == IF direction = "RIGHT" /\ w1.cursorIndex # getMaxIndexOnLine(w1)
              THEN [possiblyUpdateAnchorForCursorChange(w1, anchorPolicy)
                    EXCEPT !.cursorIndex = @ + 1]
              ELSE w1
    IN invalidateCompletionData(w2)

\* a removal that takes the anchor for the start of the selection
removeSelection_AnchorFirst(w) ==
    IF w.anchorIndex = Undefined \/ w.cursorIndex = w.anchorIndex
    THEN [w EXCEPT !.anchorIndex = Undefined]
    ELSE LET selectionStart == getAbsoluteIndexOnLine(w, w.anchorIndex)
             selectionEnd == getAbsoluteIndexOnLine(w, w.cursorIndex)
         IN [w EXCEPT !.currentPromptLine = slice(w.currentPromptLine, 0, selectionStart)
                                             \o sliceFrom(w.currentPromptLine, selectionEnd),
                      !.cursorIndex = selectionStart - Len(w.currentPrompt),
                      !.anchorIndex = Undefined]

\* _removeSelection, the state it leaves
removeSelection(w) ==
    IF w.anchorIndex = Undefined \/ w.cursorIndex = w.anchorIndex
    THEN [w EXCEPT !.anchorIndex = Undefined]
    ELSE LET lo == IF w.cursorIndex < w.anchorIndex THEN w.cursorIndex ELSE w.anchorIndex
             hi == IF w.cursorIndex < w.anchorIndex THEN w.anchorIndex ELSE w.cursorIndex
             selectionStart == getAbsoluteIndexOnLine(w, lo)
             selectionEnd == getAbsoluteIndexOnLine(w, hi)
             preSelection == slice(w.currentPromptLine, 0, selectionStart)
             postSelection == sliceFrom(w.currentPromptLine, selectionEnd)
         IN [w EXCEPT !.currentPromptLine = preSelection \o postSelection,
                      !.cursorIndex = selectionStart - Len(w.currentPrompt),
                      !.anchorIndex = Undefined]

\* a Backspace that removes the character and leaves cursorIndex where it was
handleBackspace_CursorStays(w) ==
    IF w.anchorIndex # Undefined THEN removeSelection(w)
    ELSE IF w.cursorIndex = 0 THEN w
    ELSE invalidateCompletionData(
             markCurrentLineChanged(
                 [w EXCEPT !.currentPromptLine =
                      slice(w.currentPromptLine, 0,
                            getAbsoluteIndexOnLine(w, w.cursorIndex) - 1)
                      \o sliceFrom(w.currentPromptLine,
                                   getAbsoluteIndexOnLine(w, w.cursorIndex))]))

handleBackspace(w) ==
    IF w.anchorIndex # Undefined THEN removeSelection(w)
    ELSE IF w.cursorIndex = 0 THEN w
    ELSE LET before == slice(w.currentPromptLine, 0,
                             getAbsoluteIndexOnLine(w, w.cursorIndex) - 1)
             after == sliceFrom(w.currentPromptLine,
                                getAbsoluteIndexOnLine(w, w.cursorIndex))
         IN invalidateCompletionData(
                markCurrentLineChanged([w EXCEPT !.currentPromptLine = before \o after,
                                                 !.cursorIndex = @ - 1]))

handleDelete(w) ==
    IF w.anchorIndex # Undefined THEN removeSelection(w)
    ELSE IF w.cursorIndex = getMaxIndexOnLine(w) THEN w
    ELSE LET before == slice(w.currentPromptLine, 0,
                             getAbsoluteIndexOnLine(w, w.cursorIndex))
             after == sliceFrom(w.currentPromptLine,
                                getAbsoluteIndexOnLine(w, w.cursorIndex) + 1)
         IN invalidateCompletionData(
                markCurrentLineChanged([w EXCEPT !.currentPromptLine = before \o after]))

handleSelectAll(w) ==
    invalidateCompletionData([w EXCEPT !.cursorIndex = getMaxIndexOnLine(w),
                                       !.anchorIndex = 0])

handleEscape(w) == invalidateCompletionData(setToEmptyPrompt(w))

\* _handlePaste, the state it leaves; the clipboard text arrives as a later input
handlePaste(w) == invalidateCompletionData(w)

handleLine(w, line) ==
    LET w1 == removeSelection(w)
        before == slice(w1.currentPromptLine, 0, getAbsoluteIndexOnLine(w1, w1.cursorIndex))
        after == sliceFrom(w1.currentPromptLine, getAbsoluteIndexOnLine(w1, w1.cursorIndex))
        w2 == [w1 EXCEPT !.currentPromptLine = before \o line \o after,
                         !.cursorIndex = @ + Len(line)]
    IN updateWhetherJustTypedInLastColumn(markCurrentLineChanged(w2))

\* a history that also records an immediate repetition
shouldAddToHistory_Always(history, command) == command # <<>>

shouldAddToHistory(history, command) ==
    LET isEmpty == command = <<>>
        isLastInHistory == Len(history) # 0 /\ command = history[Len(history)]
    IN ~isEmpty /\ ~isLastInHistory

addToHistory(w, command) ==
    LET raw == IF shouldAddToHistory(w.rawCommandHistory, command)
               THEN Append(w.rawCommandHistory, command)
               ELSE w.rawCommandHistory
    IN [w EXCEPT !.rawCommandHistory = raw,
                 !.historyIndex = Len(raw),
                 !.filteredCommandHistory = raw]

\* the dimensions pushed on every Enter
sendTerminalDimensionsIfNeeded_Always(w) ==
    [w EXCEPT !.evalCalls = <<[kind |-> "setCWSize", command |-> <<>>]>>,
              !.lastSentTerminalDimensions = w.terminalDimensions]

sendTerminalDimensionsIfNeeded(w) ==
    IF w.lastSentTerminalDimensions = NoDimensions
       \/ w.lastSentTerminalDimensions.columns # w.terminalDimensions.columns
       \/ w.lastSentTerminalDimensions.rows # w.terminalDimensions.rows
    THEN [w EXCEPT !.evalCalls = <<[kind |-> "setCWSize", command |-> <<>>]>>,
                   !.lastSentTerminalDimensions = w.terminalDimensions]
    ELSE [w EXCEPT !.evalCalls = <<>>]

evaluateCommand(w, command) ==
    [sendTerminalDimensionsIfNeeded(w)
        EXCEPT !.evalCalls = Append(@, [kind |-> "command", command |-> command])]

handleEnter(w) ==
    LET stringToEvaluate == trim(stripCurrentPrompt(w))
        w1 == handleEnd(addToHistory(w, stringToEvaluate), MOVE)
        w2 == [w1 EXCEPT !.lastOutputLine = <<>>,
                         !.currentPromptLine = w1.currentPrompt]
        w3 == [updateWhetherJustTypedInLastColumn(w2)
                    EXCEPT !.cursorIndex = 0,
                           !.anchorIndex = Undefined,
                           !.lastKnownCurrentLine = <<>>]
    IN evaluateCommand(invalidateCompletionData(w3), stringToEvaluate)

\* a prompt change that puts the new prompt in front of the whole old line
changePrompt_KeepOldPrompt(w, prompt) ==
    updateWhetherJustTypedInLastColumn(
        [w EXCEPT !.currentPrompt = prompt,
                  !.currentPromptLine = prompt \o w.currentPromptLine])

changePrompt(w, prompt) ==
    LET text == IF w.currentPrompt # BUSY_PROMPT THEN stripCurrentPrompt(w)
                ELSE w.currentPromptLine
    IN updateWhetherJustTypedInLastColumn(
            [w EXCEPT !.currentPrompt = prompt, !.currentPromptLine = prompt \o text])

handlePromptChange(w, state) ==
    LET w1 == [w EXCEPT !.currentState = state]
    IN IF state = "READY" THEN changePrompt(w1, IDLE_PROMPT)
       ELSE IF state = "DEBUG" THEN changePrompt(w1, DEBUG_PROMPT)
       ELSE IF state = "PAUSE" THEN changePrompt(w1, BUSY_PROMPT)
       ELSE IF state = "INPUT" THEN changePrompt(w1, FAKE_INPUT_PROMPT)
       ELSE changePrompt(w1, BUSY_PROMPT)

\* a state change handled without comparing the old and the new state
cwHandleMatlabStateChange_AlwaysClear(w, oldState, newState) ==
    IF newState = DISCONNECTED THEN [clearState(w) EXCEPT !.initialized = FALSE]
    ELSE [clearState(w) EXCEPT !.initialized = TRUE]

\* CommandWindow._handleMatlabStateChange
cwHandleMatlabStateChange(w, oldState, newState) ==
    IF oldState = newState THEN w
    ELSE IF newState = READY THEN [clearState(w) EXCEPT !.initialized = TRUE]
    ELSE IF newState = DISCONNECTED THEN [clearState(w) EXCEPT !.initialized = FALSE]
    ELSE [clearState(w) EXCEPT !.initialized = TRUE]

\* CommandWindow.open, the state it leaves; NoDimensions stands for a call
\* without initial dimensions
open(w, initialDimensions, currentMatlabState) ==
    LET w1 == IF initialDimensions # NoDimensions
              THEN [w EXCEPT !.terminalDimensions = initialDimensions]
              ELSE w
    IN IF currentMatlabState = READY THEN [w1 EXCEPT !.initialized = TRUE]
       ELSE IF currentMatlabState = DISCONNECTED
            THEN [clearState(w1) EXCEPT !.initialized = FALSE,
                                        !.currentState = "INITIALIZING"]
            ELSE [clearState(w1) EXCEPT !.initialized = TRUE]

\* _replaceCurrentLineWithNewLine with a cursor index given
replaceCurrentLineWithNewLineAt(w, updatedLine, cursorIndex) ==
    updateWhetherJustTypedInLastColumn(
        [w EXCEPT !.currentPromptLine = updatedLine,
                  !.cursorIndex = cursorIndex,
                  !.anchorIndex = Undefined])

\* WORD_REGEX on the characters of the alphabet: a word is a run of
\* characters that are neither whitespace nor punctuation
isWordChar(c) == c \notin Whitespace

\* currentLine.split(WORD_REGEX).filter(...): the maximal runs of word
\* characters and of other characters, in order
RECURSIVE splitWords(_)
splitWords(str) ==
    IF str = <<>> THEN <<>>
    ELSE LET rest == splitWords(Tail(str))
         IN IF rest # <<>> /\ isWordChar(Head(str)) = isWordChar(Head(rest)[1])
            THEN <<<<Head(str)>> \o Head(rest)>> \o Tail(rest)
            ELSE <<<<Head(str)>>>> \o rest

\* cumulativeLengths: 0 followed by the running sum of the word lengths
RECURSIVE cumulativeLengthsFrom(_, _)
cumulativeLengthsFrom(words, sum) ==
    IF words = <<>> THEN <<sum>>
    ELSE <<sum>> \o cumulativeLengthsFrom(Tail(words), sum + Len(Head(words)))

\* _doCompletion, the state it leaves
doCompletion(w) ==
    IF ~w.latestTabCompletionData.defined \/ Len(w.latestTabCompletionData.items) = 0
    THEN w
    ELSE LET currentCompletion ==
                w.latestTabCompletionData.items[w.currentCompletionIndex + 1]
             currentLine == stripCurrentPrompt(w)
             words == splitWords(currentLine)
             cumulativeLengths == cumulativeLengthsFrom(words, 0)
             found == {j \in 1..Len(cumulativeLengths) :
                            w.cursorIndex <= cumulativeLengths[j]}
         IN IF found = {} THEN w
            ELSE LET i == CHOOSE j \in found : \A k \in found : j <= k
                     \* validWords after unshift(false), at the 0-based index i - 1
                     valid == i > 1 /\ isWordChar(words[i - 1][1])
                     codeBefore == IF valid
                                   THEN slice(currentLine, 0, cumulativeLengths[i - 1])
                                   ELSE slice(currentLine, 0, w.cursorIndex)
                     codeAfter == IF valid
                                  THEN sliceFrom(currentLine, cumulativeLengths[i])
                                  ELSE sliceFrom(currentLine, w.cursorIndex)
                     newLine == codeBefore \o currentCompletion \o codeAfter
                 IN replaceCurrentLineWithNewLineAt(w, w.currentPrompt \o newLine,
                        Len(codeBefore) + Len(currentCompletion))

\* _requestCompletionData, the state it leaves
requestCompletionData(w) ==
    [invalidateCompletionData(w)
        EXCEPT !.pendingTabCompletionRequestNumber = @ + 1,
               !.pendingTabCompletionPromise = "pending"]

\* a Shift+Tab that moves forwards like Tab
completionStep_ForwardOnly(direction) == 1

completionStep(direction) == IF direction = FORWARDS THEN 1 ELSE 0 - 1

handleTab(w, direction) ==
    IF w.latestTabCompletionData.defined
    THEN LET n == Len(w.latestTabCompletionData.items)
             index == IF n = 0 \/ w.currentCompletionIndex = NaN THEN NaN
                      ELSE (w.currentCompletionIndex + n + completionStep(direction)) % n
         IN doCompletion([w EXCEPT !.currentCompletionIndex = index])
    ELSE IF trim(stripCurrentPrompt(w)) = <<>> THEN w
    ELSE requestCompletionData(w)

\* _handleCompletionDataResponse and the continuation that _handleTab attached
\* to the promise it resolves
\* a response applied whatever request number it carries
handleCompletionDataResponse_AnyNumber(w, requestId, result) ==
    IF w.pendingTabCompletionPromise = "pending"
    THEN doCompletion([w EXCEPT !.pendingTabCompletionPromise = "resolved",
                                !.latestTabCompletionData =
                                    [defined |-> TRUE, items |-> result],
                                !.currentCompletionIndex = 0])
    ELSE w

handleCompletionDataResponse(w, requestId, result) ==
    IF requestId = w.pendingTabCompletionRequestNumber
       /\ w.pendingTabCompletionPromise = "pending"
    THEN doCompletion([w EXCEPT !.pendingTabCompletionPromise = "resolved",
                                !.latestTabCompletionData =
                                    [defined |-> TRUE, items |-> result],
                                !.currentCompletionIndex = 0])
    ELSE w

handleActionKeys(w, input) ==
    CASE input = "LEFT" -> handleLeftRight(w, "LEFT", MOVE)
      [] input = "RIGHT" -> handleLeftRight(w, "RIGHT", MOVE)
      [] input = "SHIFT_LEFT" -> handleLeftRight(w, "LEFT", KEEP)
      [] input = "SHIFT_RIGHT" -> handleLeftRight(w, "RIGHT", KEEP)
      [] input = "END" -> handleEnd(w, MOVE)
      [] input = "SHIFT_END" -> handleEnd(w, KEEP)
      [] input = "HOME" -> handleHome(w, MOVE)
      [] input = "SHIFT_HOME" -> handleHome(w, KEEP)
      [] input = "DELETE" -> handleDelete(w)
      [] input = "UP" -> handleNavigateHistory(w, BACKWARDS)
      [] input = "DOWN" -> handleNavigateHistory(w, FORWARDS)
      [] input = "ESCAPE" -> handleEscape(w)
      [] input \in {"BACKSPACE", "BACKSPACE_ALTERNATIVE"} -> handleBackspace(w)
      [] input = "SELECT_ALL" -> handleSelectAll(w)
      [] input = "PASTE" -> handlePaste(w)
      [] input = "TAB" -> handleTab(w, FORWARDS)
      [] input = "SHIFT_TAB" -> handleTab(w, BACKWARDS)
      [] OTHER -> w

\* every line of a multi-line input entered by an Enter of its own
RECURSIVE handleLines_EnterEach(_, _, _)
handleLines_EnterEach(w, lines, i) ==
    IF i > Len(lines) THEN w
    ELSE handleLines_EnterEach(handleEnter(handleLine(w, lines[i])), lines, i + 1)

\* the loop of case 3 of handleText: _handleLine for every line, with
\* ACTION_KEYS.NEWLINE after every line but the last
RECURSIVE handleLines(_, _, _)
handleLines(w, lines, i) ==
    IF i > Len(lines) THEN w
    ELSE handleLines(handleLine(w, lines[i] \o (IF i = Len(lines) THEN <<>> ELSE <<CR, LF>>)),
                     lines, i + 1)

\* an input is an escape sequence or control key (key) or plain text (text)
KeyInput(key) == [key |-> key, text |-> <<>>]
TextInput(text) == [key |-> "", text |-> text]

\* the text "\r\n" is the value of ACTION_KEYS.NEWLINE
isSpecialKey(data) == data.key # "" \/ data.text = <<CR, LF>>

preprocessInputLines(data) == split(normalizeNewlines(data))

\* CommandWindow.handleText with isOutput = false
handleText(w, data) ==
    IF isSpecialKey(data) THEN handleActionKeys(w, data.key)
    ELSE IF Len(data.text) = 1 /\ data.text[1] \in ControlChars THEN w
    ELSE LET lines == preprocessInputLines(data.text)
             w1 == invalidateCompletionData(w)
         IN IF Len(lines) = 1 THEN handleLine(w1, lines[1])
            ELSE IF Len(lines) = 2 /\ Len(lines[2]) = 0
                 THEN handleEnter(handleLine(w1, lines[1]))
                 ELSE handleEnter(handleLines(w1, lines, 1))

inputAccepted(w) ==
    /\ w.initialized
    /\ w.currentState # "INITIALIZING"
    /\ w.currentState # "PAUSE"

\* input edited into the line while the prompt state is PAUSE
handleInput_EditWhilePaused(w, data) ==
    IF w.initialized /\ w.currentState # "INITIALIZING" THEN handleText(w, data) ELSE w

\* CommandWindow.handleInput, the state it leaves
handleInput(w, data) ==
    IF inputAccepted(w) THEN handleText(w, data) ELSE w

(***************************************************************************)
(* The session as a state machine                                          *)
(***************************************************************************)
MVMInit ==
    /\ currentState = DISCONNECTED
    /\ pendingUserEvals = 0
    /\ requestMap = emptyMap
    /\ readyPromise = "pending"
    /\ thenQueue = <<>>
    /\ microtasks = <<>>
    /\ promiseState = [id \in {} |-> "pending"]
    /\ nextId = 1
    /\ sent = <<>>
    /\ reqInfo = [id \in {} |-> [kind |-> "eval", isUserEval |-> FALSE,
                                 deferred |-> FALSE, connectedSince |-> FALSE,
                                 dropped |-> FALSE, answered |-> FALSE]]
    /\ deliveries = 0
    /\ answeredOnce = TRUE

NoNav == [mode |-> "none", t |-> <<>>, ups |-> Undefined]

CWInit ==
    /\ cw = [initialized |-> FALSE,
             currentPrompt |-> IDLE_PROMPT,
             currentState |-> "INITIALIZING",
             currentPromptLine |-> IDLE_PROMPT,
             cursorIndex |-> 0,
             anchorIndex |-> Undefined,
             rawCommandHistory |-> <<>>,
             historyIndex |-> 0,
             lastKnownCurrentLine |-> <<>>,
             filteredCommandHistory |-> <<>>,
             terminalDimensions |-> [rows |-> DefaultRows, columns |-> DefaultColumns],
             lastSentTerminalDimensions |-> NoDimensions,
             justTypedLastInColumn |-> FALSE,
             lastOutputLine |-> <<>>,
             latestTabCompletionData |-> NoCompletionData,
             currentCompletionIndex |-> 0 - 1,
             pendingTabCompletionRequestNumber |-> 0 - 1,
             pendingTabCompletionPromise |-> "undefined",
             evalCalls |-> <<>>]
    /\ nav = NoNav
    /\ scenarioB = [ok |-> TRUE, cmds |-> <<>>]

(***************************************************************************)
(* What the command window writes to the terminal.  A write is a record:   *)
(* k is "text" for characters (s) or the name of an escape sequence, and n *)
(* is the count or the parameter of the sequence.  For every operation     *)
(* that writes there is an operator that gives its writes in order, from   *)
(* the state the operation starts in.                                      *)
(***************************************************************************)
TextWrite(str) == [k |-> "text", n |-> 0, s |-> str]

KeyWrite(key, n) == [k |-> key, n |-> n, s |-> <<>>]

\* ACTION_KEYS.NEWLINE written to the terminal
NEWLINE == TextWrite(<<CR, LF>>)

\* Math.ceil(a / b) for a >= 0 and b > 0
ceilDiv(a, b) == (a + b - 1) \div b

\* Math.max
max(a, b) == IF a > b THEN a ELSE b

\* _moveCursorToCurrent(lineOfInputCursorIsCurrentlyOn); Undefined stands for
\* a call without the argument
moveCursorToCurrentWrites(w, lineOfInputCursorIsCurrentlyOn) ==
    LET columns == w.terminalDimensions.columns
        absoluteIndex == getAbsoluteIndexOnLine(w, w.cursorIndex)
        lineNumberCursorShouldBeOn == max(1, ceilDiv(absoluteIndex, columns))
        currentlyOn == max(1, IF lineOfInputCursorIsCurrentlyOn = Undefined
                              THEN lineNumberCursorShouldBeOn
                              ELSE lineOfInputCursorIsCurrentlyOn)
    IN (IF lineNumberCursorShouldBeOn > currentlyOn
        THEN <<KeyWrite("DOWN", lineNumberCursorShouldBeOn - currentlyOn)>>
        ELSE IF lineNumberCursorShouldBeOn < currentlyOn
             THEN <<KeyWrite("UP", currentlyOn - lineNumberCursorShouldBeOn)>>
             ELSE <<>>)
       \o <<KeyWrite("MOVE_TO_POSITION_IN_LINE", (absoluteIndex % columns) + 1)>>

\* _eraseExistingPromptLine
eraseExistingPromptLineWrites(w) ==
    LET numberOfLinesBehind ==
            getAbsoluteIndexOnLine(w, w.cursorIndex) \div w.terminalDimensions.columns
    IN (IF numberOfLinesBehind # 0 THEN <<KeyWrite("UP", numberOfLinesBehind)>> ELSE <<>>)
       \o <<KeyWrite("CLEAR_AND_MOVE_TO_BEGINNING", 0)>>

\* _writeCurrentPromptLine(eraseExisting)
writeCurrentPromptLineWrites(w, eraseExisting) ==
    LET lo == IF w.cursorIndex < w.anchorIndex THEN w.cursorIndex ELSE w.anchorIndex
        hi == IF w.cursorIndex < w.anchorIndex THEN w.anchorIndex ELSE w.cursorIndex
        selectionStart == Len(w.currentPrompt) + lo
        selectionEnd == Len(w.currentPrompt) + hi
        currentCursorLine == ceilDiv(Len(w.currentPromptLine), w.terminalDimensions.columns)
    IN (IF eraseExisting THEN eraseExistingPromptLineWrites(w) ELSE <<>>)
       \o (IF w.anchorIndex = Undefined
           THEN <<TextWrite(w.currentPromptLine)>>
           ELSE <<TextWrite(slice(w.currentPromptLine, 0, selectionStart)),
                  KeyWrite("INVERT_COLORS", 0),
                  TextWrite(slice(w.currentPromptLine, selectionStart, selectionEnd)),
                  KeyWrite("RESTORE_COLORS", 0),
                  TextWrite(sliceFrom(w.currentPromptLine, selectionEnd))>>)
       \o moveCursorToCurrentWrites(w, currentCursorLine)

\* _replaceCurrentLineWithNewLine: w is the state before and replaced the state
\* after the replacement
replaceCurrentLineWrites(w, replaced) ==
    eraseExistingPromptLineWrites(w) \o writeCurrentPromptLineWrites(replaced, FALSE)

\* the value _removeSelection returns
removeSelectionRemoves(w) == w.anchorIndex # Undefined /\ w.cursorIndex # w.anchorIndex

\* the value _possiblyUpdateAnchorForCursorChange returns
anchorChangeDirtiesLine(w, policy) ==
    (policy = MOVE /\ w.anchorIndex # Undefined) \/ policy = KEEP

\* _handleLine
handleLineWrites(w, line) ==
    LET w1 == removeSelection(w) IN
    (IF removeSelectionRemoves(w) THEN writeCurrentPromptLineWrites(w1, TRUE) ELSE <<>>)
    \o (IF w1.cursorIndex = getMaxIndexOnLine(w1)
        THEN <<TextWrite(line)>>
        ELSE writeCurrentPromptLineWrites(handleLine(w, line), TRUE))

\* _handleEnd and _handleHome: moved is the state the handler leaves
handleEndHomeWrites(w, moved) ==
    moveCursorToCurrentWrites(moved,
        ceilDiv(getAbsoluteIndexOnLine(w, w.cursorIndex), w.terminalDimensions.columns))

\* _handleEnter
handleEnterWrites(w) ==
    LET stringToEvaluate == trim(stripCurrentPrompt(w))
        w1 == handleEnd(addToHistory(w, stringToEvaluate), MOVE)
    IN handleEndHomeWrites(w, w1)
       \o <<NEWLINE>>
       \o writeCurrentPromptLineWrites(handleEnter(w), TRUE)

\* _handleLeftRight
handleLeftRightWrites(w, direction) ==
    LET columns == w.terminalDimensions.columns
        absoluteIndex == getAbsoluteIndexOnLine(w, w.cursorIndex)
    IN IF direction = "LEFT" /\ w.cursorIndex # 0
       THEN IF w.justTypedLastInColumn THEN <<>>
            ELSE IF absoluteIndex % columns = 0
                 THEN <<KeyWrite("UP", 1), KeyWrite("MOVE_TO_POSITION_IN_LINE", columns)>>
                 ELSE <<KeyWrite("LEFT", 1)>>
       ELSE IF direction = "RIGHT" /\ w.cursorIndex # getMaxIndexOnLine(w)
            THEN IF w.justTypedLastInColumn THEN <<>>
                 ELSE IF absoluteIndex % columns = columns - 1
                      THEN <<KeyWrite("DOWN", 1), KeyWrite("MOVE_TO_POSITION_IN_LINE", 0)>>
                      ELSE <<KeyWrite("RIGHT", 1)>>
            ELSE <<>>

\* the value _handleLeftRight returns
handleLeftRightDirties(w, direction, anchorPolicy) ==
    /\ \/ direction = "LEFT" /\ w.cursorIndex # 0
       \/ direction = "RIGHT" /\ w.cursorIndex # getMaxIndexOnLine(w)
    /\ anchorChangeDirtiesLine(w, anchorPolicy)

\* _handleNavigateHistory
handleNavigateHistoryWrites(w, direction) ==
    LET isAtEnd == w.historyIndex = Len(w.filteredCommandHistory)
        isAtBeginning == w.historyIndex = 0
    IN IF (direction = BACKWARDS /\ isAtBeginning) \/ (direction = FORWARDS /\ isAtEnd)
       THEN <<>>
       ELSE replaceCurrentLineWrites(w, handleNavigateHistory(w, direction))

\* _doCompletion replaces the line
doCompletionApplies(w) ==
    /\ w.latestTabCompletionData.defined
    /\ Len(w.latestTabCompletionData.items) # 0
    /\ w.cursorIndex <= Len(stripCurrentPrompt(w))

\* _handleTab
handleTabWrites(w, direction) ==
    IF doCompletionApplies(w)
    THEN replaceCurrentLineWrites(w, handleTab(w, direction))
    ELSE <<>>

\* the value _handleTab returns
handleTabDirties(w) ==
    IF w.latestTabCompletionData.defined THEN doCompletionApplies(w)
    ELSE trim(stripCurrentPrompt(w)) # <<>>

\* what the handler called by _handleActionKeys writes
handleActionKeysWrites(w, input) ==
    CASE input \in {"LEFT", "SHIFT_LEFT"} -> handleLeftRightWrites(w, "LEFT")
      [] input \in {"RIGHT", "SHIFT_RIGHT"} -> handleLeftRightWrites(w, "RIGHT")
      [] input \in {"END", "SHIFT_END", "HOME", "SHIFT_HOME"} ->
            handleEndHomeWrites(w, handleActionKeys(w, input))
      [] input = "UP" -> handleNavigateHistoryWrites(w, BACKWARDS)
      [] input = "DOWN" -> handleNavigateHistoryWrites(w, FORWARDS)
      [] input = "TAB" -> handleTabWrites(w, FORWARDS)
      [] input = "SHIFT_TAB" -> handleTabWrites(w, BACKWARDS)
      [] OTHER -> <<>>

\* the value _handleActionKeys returns: the line is to be written again
handleActionKeysDirties(w, input) ==
    CASE input = "LEFT" -> handleLeftRightDirties(w, "LEFT", MOVE)
      [] input = "RIGHT" -> handleLeftRightDirties(w, "RIGHT", MOVE)
      [] input = "SHIFT_LEFT" -> handleLeftRightDirties(w, "LEFT", KEEP)
      [] input = "SHIFT_RIGHT" -> handleLeftRightDirties(w, "RIGHT", KEEP)
      [] input \in {"END", "HOME"} -> anchorChangeDirtiesLine(w, MOVE)
      [] input \in {"SHIFT_END", "SHIFT_HOME"} -> anchorChangeDirtiesLine(w, KEEP)
      [] input = "DELETE" ->
            IF w.anchorIndex # Undefined THEN removeSelectionRemoves(w)
            ELSE w.cursorIndex # getMaxIndexOnLine(w)
      [] input \in {"BACKSPACE", "BACKSPACE_ALTERNATIVE"} ->
            IF w.anchorIndex # Undefined THEN removeSelectionRemoves(w)
            ELSE w.cursorIndex # 0
      [] input \in {"ESCAPE", "SELECT_ALL"} -> TRUE
      [] input \in {"TAB", "SHIFT_TAB"} -> handleTabDirties(w)
      [] OTHER -> FALSE

\* the loop of case 3 of handleText
RECURSIVE handleLinesWrites(_, _, _)
handleLinesWrites(w, lines, i) ==
    IF i > Len(lines) THEN <<>>
    ELSE LET line == lines[i] \o (IF i = Len(lines) THEN <<>> ELSE <<CR, LF>>)
         IN handleLineWrites(w, line) \o handleLinesWrites(handleLine(w, line), lines, i + 1)

\* CommandWindow.handleText with isOutput = false
handleTextWrites(w, data) ==
    IF isSpecialKey(data)
    THEN handleActionKeysWrites(w, data.key)
         \o (IF handleActionKeysDirties(w, data.key)
             THEN writeCurrentPromptLineWrites(handleActionKeys(w, data.key), TRUE)
             ELSE <<>>)
    ELSE IF Len(data.text) = 1 /\ data.text[1] \in ControlChars THEN <<>>
    ELSE LET lines == preprocessInputLines(data.text)
             w1 == invalidateCompletionData(w)
         IN IF Len(lines) = 1 THEN handleLineWrites(w1, lines[1])
            ELSE IF Len(lines) = 2 /\ Len(lines[2]) = 0
                 THEN handleLineWrites(w1, lines[1])
                      \o handleEnterWrites(handleLine(w1, lines[1]))
                 ELSE handleLinesWrites(w1, lines, 1)
                      \o handleEnterWrites(handleLines(w1, lines, 1))

\* CommandWindow.handleInput
handleInputWrites(w, data) ==
    IF inputAccepted(w) THEN handleTextWrites(w, data) ELSE <<>>

\* _handleCompletionDataResponse and the continuation of _handleTab
handleCompletionDataResponseWrites(w, requestId, result) ==
    LET completed == handleCompletionDataResponse(w, requestId, result) IN
    IF requestId = w.pendingTabCompletionRequestNumber
       /\ w.pendingTabCompletionPromise = "pending"
       /\ doCompletionApplies(completed)
    THEN replaceCurrentLineWrites(w, completed)
    ELSE <<>>

\* _handlePromptChange: _changePrompt writes the line again
handlePromptChangeWrites(w, state) ==
    writeCurrentPromptLineWrites(handlePromptChange(w, state), TRUE)

\* _handleMatlabStateChange
cwHandleMatlabStateChangeWrites(w, oldState, newState) ==
    IF oldState = newState THEN <<>>
    ELSE <<KeyWrite("CLEAR_COMPLETELY", 0)>>
         \o (IF newState = READY
             THEN writeCurrentPromptLineWrites(
                        cwHandleMatlabStateChange(w, oldState, newState), TRUE)
             ELSE <<>>)

\* CommandWindow.clear
clearWrites(w) == <<KeyWrite("CLEAR_COMPLETELY", 0)>>

\* CommandWindow.open
openWrites(w, initialDimensions, currentMatlabState) ==
    <<KeyWrite("SET_CURSOR_STYLE_TO_BAR", 0)>>
    \o (IF currentMatlabState = READY
        THEN writeCurrentPromptLineWrites(open(w, initialDimensions, currentMatlabState), TRUE)
        ELSE <<KeyWrite("CLEAR_COMPLETELY", 0)>>)

(***************************************************************************)
(* Output of the session                                                   *)
(***************************************************************************)
\* an output text event: stream 0 is standard output
TextEvent(text, stream) == [text |-> text, stream |-> stream]

\* output that takes the place of the line being edited
handleOutputLine_ClearsLine(w, line, implicitNewlineAtEnd) ==
    [setToEmptyPrompt(w) EXCEPT
        !.lastOutputLine = IF implicitNewlineAtEnd THEN <<>> ELSE @ \o line]

\* _handleOutputLine and _handleOutputNewline, the state they leave
handleOutputLine(w, line, implicitNewlineAtEnd) ==
    [w EXCEPT !.lastOutputLine = IF implicitNewlineAtEnd THEN <<>> ELSE @ \o line]

\* _handleOutputLine
handleOutputLineWrites(w, line, implicitNewlineAtEnd) ==
    LET numberOfLinesBehind ==
            getAbsoluteIndexOnLine(w, w.cursorIndex) \div w.terminalDimensions.columns
        lastOutputLine == w.lastOutputLine \o line
    IN (IF numberOfLinesBehind # 0 THEN <<KeyWrite("UP", numberOfLinesBehind)>> ELSE <<>>)
       \o (IF Len(w.lastOutputLine) # 0 THEN <<KeyWrite("UP", 1)>> ELSE <<>>)
       \o <<KeyWrite("CLEAR_AND_MOVE_TO_BEGINNING", 0), TextWrite(lastOutputLine)>>
       \o (IF implicitNewlineAtEnd THEN <<NEWLINE>> ELSE <<>>)
       \o (IF ~implicitNewlineAtEnd /\ Len(lastOutputLine) # 0 THEN <<NEWLINE>> ELSE <<>>)
       \o writeCurrentPromptLineWrites(w, FALSE)

\* output that handleText drops: a special key, or one control character
outputDropped(data) ==
    \/ isSpecialKey(data)
    \/ Len(data.text) = 1 /\ data.text[1] \in ControlChars

RECURSIVE handleOutputLines(_, _, _)
handleOutputLines(w, lines, i) ==
    IF i > Len(lines) THEN w
    ELSE handleOutputLines(handleOutputLine(w, lines[i], i # Len(lines)), lines, i + 1)

RECURSIVE handleOutputLinesWrites(_, _, _)
handleOutputLinesWrites(w, lines, i) ==
    IF i > Len(lines) THEN <<>>
    ELSE handleOutputLineWrites(w, lines[i], i # Len(lines))
         \o handleOutputLinesWrites(handleOutputLine(w, lines[i], i # Len(lines)),
                                    lines, i + 1)

\* CommandWindow.handleText with isOutput = true, the state it leaves
handleOutputText(w, data) ==
    IF outputDropped(data) THEN w
    ELSE handleOutputLines(w, preprocessInputLines(data.text), 1)

\* CommandWindow.handleText with isOutput = true
handleOutputTextWrites(w, data) ==
    IF outputDropped(data) THEN <<>>
    ELSE handleOutputLinesWrites(w, preprocessInputLines(data.text), 1)

\* CommandWindow.addOutput, the state it leaves
addOutput(w, output) ==
    IF w.initialized THEN handleOutputText(w, TextInput(output.text)) ELSE w

\* CommandWindow.addOutput
addOutputWrites(w, output) ==
    IF ~w.initialized THEN <<>>
    ELSE IF output.stream = 0 THEN handleOutputTextWrites(w, TextInput(output.text))
    ELSE <<KeyWrite("RED_FOREGROUND", 0)>>
         \o handleOutputTextWrites(w, TextInput(output.text))
         \o <<KeyWrite("ALL_DEFAULT_COLORS", 0)>>

(***************************************************************************)
(* The terminal that receives the writes: its size and the position of its *)
(* cursor.  row and col count from 0 at the top left of the screen;        *)
(* pending says that a character was put in the last column and the next   *)
(* one wraps; origin is the row the cursor came to by the last line feed   *)
(* or clearing, where the line being edited starts, and is less than 0     *)
(* once that row has scrolled off the screen.  Writes made before the      *)
(* terminal is opened are ignored.                                         *)
(***************************************************************************)
NoTerminal ==
    [opened |-> FALSE, rows |-> 0, columns |-> 0,
     row |-> 0, col |-> 0, pending |-> FALSE, origin |-> 0]

\* the terminal as it is when Pseudoterminal.open is called
NewTerminal(dimensions) ==
    [opened |-> TRUE, rows |-> dimensions.rows, columns |-> dimensions.columns,
     row |-> 0, col |-> 0, pending |-> FALSE, origin |-> 0]

\* Math.min
min(a, b) == IF a < b THEN a ELSE b

\* the cursor goes to the next row; at the bottom the screen scrolls
nextRow(t) ==
    IF t.row = t.rows - 1
    THEN [t EXCEPT !.origin = max(@ - 1, 0 - 1)]
    ELSE [t EXCEPT !.row = @ + 1]

\* one character received by the terminal
receiveChar(t, c) ==
    IF c = CR THEN [t EXCEPT !.col = 0, !.pending = FALSE]
    ELSE IF c = LF
         THEN LET down == nextRow(t)
              IN [down EXCEPT !.origin = down.row, !.pending = FALSE]
    ELSE LET wrapped == IF t.pending
                        THEN [nextRow(t) EXCEPT !.col = 0, !.pending = FALSE]
                        ELSE t
         IN IF wrapped.col = t.columns - 1
            THEN [wrapped EXCEPT !.pending = TRUE]
            ELSE [wrapped EXCEPT !.col = @ + 1]

RECURSIVE receiveText(_, _)
receiveText(t, str) ==
    IF str = <<>> THEN t
    ELSE receiveText(receiveChar(t, Head(str)), Tail(str))

\* one write received by the terminal
receive(t, write) ==
    CASE ~t.opened -> t
      [] write.k = "text" -> receiveText(t, write.s)
      [] write.k = "UP" -> [t EXCEPT !.row = max(@ - write.n, 0), !.pending = FALSE]
      [] write.k = "DOWN" ->
            [t EXCEPT !.row = min(@ + write.n, t.rows - 1), !.pending = FALSE]
      [] write.k = "LEFT" -> [t EXCEPT !.col = max(@ - write.n, 0), !.pending = FALSE]
      [] write.k = "RIGHT" ->
            [t EXCEPT !.col = min(@ + write.n, t.columns - 1), !.pending = FALSE]
      [] write.k = "MOVE_TO_POSITION_IN_LINE" ->
            [t EXCEPT !.col = min(max(write.n, 1), t.columns) - 1, !.pending = FALSE]
      [] write.k = "CLEAR_AND_MOVE_TO_BEGINNING" -> [t EXCEPT !.col = 0, !.pending = FALSE]
      [] write.k = "CLEAR_COMPLETELY" ->
            [t EXCEPT !.row = 0, !.col = 0, !.pending = FALSE, !.origin = 0]
      [] OTHER -> t

RECURSIVE receiveAll(_, _)
receiveAll(t, writes) ==
    IF writes = <<>> THEN t
    ELSE receiveAll(receive(t, Head(writes)), Tail(writes))

(***************************************************************************)
(* LineRangeTree: the sections of a document                               *)
(***************************************************************************)
\* the root node of the tree, which has no section
Root == 0

\* no node: the parent of the root, the result of a search that found nothing
NoNode == 0 - 1

\* the section of the root, and what find returns when no section was found
NoSection == [start |-> Undefined, end |-> Undefined]

\* Infinity, greater than every line
Infinity == MaxLine + 1

\* new TreeNode(undefined): a tree that has only its root.  Node i >= 1 is
\* the node made for the i-th section of the list.
RootOnly(sectionRanges) ==
    [section |-> sectionRanges,
     parent |-> [i \in 1..Len(sectionRanges) |-> NoNode],
     children |-> [node \in 0..Len(sectionRanges) |-> <<>>]]

\* TreeNode.getStartLine
getStartLine(t, node) == IF node = Root THEN 0 ELSE t.section[node].start

\* TreeNode.getEndLine
getEndLine(t, node) == IF node = Root THEN Infinity ELSE t.section[node].end

\* TreeNode.parent
parentOf(t, node) == IF node = Root THEN NoNode ELSE t.parent[node]

\* TreeNode.add
add(t, node, treeNode) ==
    [t EXCEPT !.children[node] = Append(@, treeNode),
              !.parent[treeNode] = node]

\* the while loop of _set for the node i, starting at currentNode: the tree
\* and the current node it leaves
RECURSIVE climbAndAdd(_, _, _)
climbAndAdd(t, currentNode, i) ==
    IF currentNode = NoNode THEN [t |-> t, currentNode |-> NoNode]
    ELSE IF /\ getStartLine(t, i) >= getStartLine(t, currentNode)
            /\ getEndLine(t, i) <= getEndLine(t, currentNode)
         THEN [t |-> add(t, currentNode, i), currentNode |-> i]
         ELSE climbAndAdd(t, parentOf(t, currentNode), i)

\* the for loop of _set from the i-th section on
RECURSIVE setFrom(_, _, _)
setFrom(t, currentNode, i) ==
    IF i > Len(t.section) THEN t
    ELSE LET r == climbAndAdd(t, currentNode, i)
         IN setFrom(r.t, r.currentNode, i + 1)

\* LineRangeTree._set
set(sectionRanges) == setFrom(RootOnly(sectionRanges), Root, 1)

\* a line one short of the end of the node's range counts as the last one
nodeContains_EndExclusive(t, node, line) ==
    line >= getStartLine(t, node) /\ line < getEndLine(t, node)

\* the test of _searchByLine: the line is in the range of the node
nodeContains(t, node, line) ==
    line >= getStartLine(t, node) /\ line <= getEndLine(t, node)

\* the binary search of _searchByLine over children[start..end] (0-based)
RECURSIVE binarySearch(_, _, _, _, _)
binarySearch(t, line, children, start, end) ==
    IF start > end THEN NoNode
    ELSE LET mid == (start + end) \div 2
             midNode == children[mid + 1]
         IN IF nodeContains(t, midNode, line) THEN midNode
            ELSE IF line < getStartLine(t, midNode)
                 THEN binarySearch(t, line, children, start, mid - 1)
                 ELSE binarySearch(t, line, children, mid + 1, end)

\* LineRangeTree._searchByLine
searchByLine(t, line, parentNode) ==
    LET length == Len(t.children[parentNode]) IN
    IF length = 0 THEN NoNode
    ELSE binarySearch(t, line, t.children[parentNode], 0, length - 1)

\* the while loop of find: the last node found below currentNode
RECURSIVE descend(_, _, _)
descend(t, line, lastNode) ==
    LET currentNode == searchByLine(t, line, lastNode) IN
    IF currentNode = NoNode THEN lastNode ELSE descend(t, line, currentNode)

\* LineRangeTree.find
find(t, line) ==
    LET lastNode == descend(t, line, Root) IN
    IF lastNode = Root THEN NoSection ELSE t.section[lastNode]

TreeInit ==
    /\ tree = set(<<>>)
    /\ findLine = Undefined
    /\ findResult = NoSection

(***************************************************************************)
(* MatlabDebugAdaptor (src/src/debug/MatlabDebugAdaptor.ts).  debug holds  *)
(* the static counter _nextId, the adaptors in the order they subscribed   *)
(* to the notifier, the packaged requests sent to the server, and the      *)
(* responses the last response notification made the adaptors send to the  *)
(* host.                                                                   *)
(***************************************************************************)
NoAdaptors ==
    [nextId |-> 1, adaptors |-> <<>>, requests |-> <<>>, responses |-> <<>>,
     events |-> <<>>, log |-> <<>>]

\* MatlabDebugAdaptor.constructor
MatlabDebugAdaptor(d, isBase) ==
    [d EXCEPT !.adaptors = Append(@, [debugAdaptorId |-> d.nextId,
                                      isBase |-> isBase,
                                      isMatlabConnected |-> FALSE,
                                      isStarted |-> FALSE]),
              !.nextId = @ + 1]

\* _packageRequest
packageRequest(adaptor, request) ==
    [debugRequest |-> request, tag |-> adaptor.debugAdaptorId]

\* the value that stands for null
Null == [command |-> "null", request_seq |-> 0 - 1]

\* a response unpackaged whatever its tag is
unpackageResponse_AnyTag(adaptor, response) == response.debugResponse

\* _unpackageResponse
unpackageResponse(adaptor, response) ==
    IF response.tag = adaptor.debugAdaptorId THEN response.debugResponse ELSE Null

\* MultiClientNotifier._handler for Notification.DebugAdaptorResponse: every
\* adaptor's _handleResponseNotification from the i-th on, in the order of
\* subscription; an entry of the result is a sendResponse call
RECURSIVE handleResponseNotification(_, _, _)
handleResponseNotification(adaptors, packagedResponse, i) ==
    IF i > Len(adaptors) THEN <<>>
    ELSE LET response == unpackageResponse(adaptors[i], packagedResponse)
         IN (IF response # Null THEN <<[adaptor |-> i, response |-> response]>> ELSE <<>>)
            \o handleResponseNotification(adaptors, packagedResponse, i + 1)

\* MatlabDebugAdaptor.dispatchRequest of the i-th adaptor
dispatchRequest(d, i, request) ==
    [d EXCEPT !.adaptors[i].isStarted = @ \/ request.command = "initialize",
              !.requests = Append(@, packageRequest(d.adaptors[i], request)),
              !.log = Append(@, [kind |-> "request", name |-> request.command,
                                 adaptor |-> i])]

\* String.prototype.endsWith
endsWith(str, suffix) ==
    /\ Len(suffix) <= Len(str)
    /\ SubSeq(str, Len(str) - Len(suffix) + 1, Len(str)) = suffix

\* _sendCacheFilePathRequest of the i-th adaptor, for a document with this
\* file name
sendCacheFilePathRequest(d, i, fileName) ==
    IF ~d.adaptors[i].isMatlabConnected THEN d
    ELSE IF endsWith(fileName, <<".", "m">>)
         THEN dispatchRequest(d, i, [command |-> "cacheFilePath", seq |-> 0 - 1])
         ELSE d

\* vscode.workspace.textDocuments.forEach(this._sendCacheFilePathRequest)
RECURSIVE forEachTextDocument(_, _, _)
forEachTextDocument(d, i, textDocuments) ==
    IF textDocuments = <<>> THEN d
    ELSE forEachTextDocument(sendCacheFilePathRequest(d, i, Head(textDocuments)),
                             i, Tail(textDocuments))

\* the listener that _setupDocumentListeners of the i-th adaptor registers on
\* the stateChanged event of the session
onStateChanged(d, i, oldState, newState, textDocuments) ==
    IF oldState = newState THEN d
    ELSE IF newState = DISCONNECTED
         THEN [d EXCEPT !.adaptors[i].isMatlabConnected = FALSE]
         ELSE [(IF ~d.adaptors[i].isMatlabConnected
                THEN forEachTextDocument(d, i, textDocuments)
                ELSE d) EXCEPT !.adaptors[i].isMatlabConnected = TRUE]

\* the stateChanged event of the session reaches the listener of every
\* adaptor that registered one: the base adaptors, from the i-th on
RECURSIVE setupDocumentListeners(_, _, _, _, _)
setupDocumentListeners(d, i, oldState, newState, textDocuments) ==
    IF i > Len(d.adaptors) THEN d
    ELSE setupDocumentListeners(
            IF d.adaptors[i].isBase
            THEN onStateChanged(d, i, oldState, newState, textDocuments)
            ELSE d,
            i + 1, oldState, newState, textDocuments)

\* _isLifecycleEvent
isLifecycleEvent(event) == event \in {"initialized", "exited", "terminate"}

\* a nested adaptor that forwards every event
forwardsEvent_Always(adaptor, event) ==
    IF adaptor.isBase THEN isLifecycleEvent(event) ELSE TRUE

\* _handleEventNotification: whether the adaptor calls sendEvent
forwardsEvent(adaptor, event) ==
    IF adaptor.isBase THEN isLifecycleEvent(event) ELSE adaptor.isStarted

\* MultiClientNotifier._handler for Notification.DebugAdaptorEvent: every
\* adaptor's _handleEventNotification; events holds the adaptors that called
\* sendEvent for this notification
handleEventNotification(d, event) ==
    [d EXCEPT !.events = SelectSeq([i \in 1..Len(d.adaptors) |-> i],
                                   LAMBDA i : forwardsEvent(d.adaptors[i], event)),
              !.adaptors = [i \in 1..Len(d.adaptors) |->
                                [d.adaptors[i] EXCEPT !.isStarted =
                                    IF event = "terminate" THEN FALSE ELSE @]],
              !.log = Append(@, [kind |-> "event", name |-> event, adaptor |-> 0])]

\* no stateChanged event has been emitted
NothingObserved ==
    [state |-> "none", requestMap |-> emptyMap, promiseState |-> <<>>,
     pendingUserEvals |-> 0]

\* the base adaptor and the nested adaptor, as the debugger constructs them
DebugInit == debug = MatlabDebugAdaptor(MatlabDebugAdaptor(NoAdaptors, TRUE), FALSE)

\* TerminalService after its constructor: no terminal, no creation promise
ServiceInit ==
    service = [currentMatlabTerminal |-> Undefined,
               terminalCreationPromise |-> Undefined,
               terminals |-> 0,
               windowTerminals |-> 0,
               disposed |-> {},
               opened |-> {},
               closed |-> {},
               timers |-> 0,
               calls |-> 0,
               returned |-> {}]

\* MVM._isCurrentlyDebugging = false
DebuggingInit == debugging = [isCurrentlyDebugging |-> FALSE, log |-> <<>>]

Init ==
    /\ MVMInit
    /\ CWInit
    /\ TreeInit
    /\ DebugInit
    /\ calls = <<>>
    /\ observed = NothingObserved
    /\ commands = <<>>
    /\ ServiceInit
    /\ DebuggingInit
    /\ term = NoTerminal
    /\ lastOp = Op("init", 0)

Next ==
    \/ \E isUserEval \in BOOLEAN : eval(isUserEval)
    \/ feval
    \/ setBreakpoint
    \/ clearBreakpoint
    \/ SendRequest
    \/ \E newState \in MatlabState : handleMatlabStateChange(newState)
    \/ \E id \in Ids : handleEvalResponse(id)
    \/ \E id \in Ids : handleFevalResponse(id)
    \/ \E id \in Ids : handleBreakpointResponse(id)

Spec == Init /\ [][Next]_vars


(***************************************************************************)
(* The command window attached to a session, as a state machine.  The      *)
(* evaluations the last Enter asked of the session are in cw.evalCalls;    *)
(* the action that handles the input makes them on the session.            *)
(***************************************************************************)
Text(w) == stripCurrentPrompt(w)

Range(seq) == {seq[i] : i \in 1..Len(seq)}

TypedTexts == {<<c>> : c \in Alphabet} \cup {<<CR>>}

\* the keys pressed while working with the history
HistoryKeys == {"UP", "DOWN", "BACKSPACE", "ESCAPE"}

Inputs == {KeyInput(key) : key \in HistoryKeys} \cup {TextInput(text) : text \in TypedTexts}

\* the prompt states the session reports while commands are typed and run
ReportedPromptStates == {"READY", "BUSY"}

\* the characters held in the history entries and on the line
RECURSIVE TotalLen(_)
TotalLen(seq) == IF seq = <<>> THEN 0 ELSE Len(Head(seq)) + TotalLen(Tail(seq))

HeldChars(w) == Len(Text(w)) + TotalLen(w.rawCommandHistory)

IsEnter(data) == ~isSpecialKey(data) /\ Len(preprocessInputLines(data.text)) > 1

\* the text on the line when Enter takes it
SubmittedText(w, data) == Text(handleLine(w, preprocessInputLines(data.text)[1]))

navAfterInput(w, data, w2) ==
    IF ~inputAccepted(w) THEN nav
    ELSE IF data.key = "UP"
         THEN IF nav.mode = "entered"
              THEN [nav EXCEPT !.ups = IF @ >= 0 /\ @ < Len(w.rawCommandHistory)
                                       THEN @ + 1 ELSE Undefined]
              ELSE nav
    ELSE IF data.key = "DOWN"
         THEN IF nav.mode = "entered" THEN [nav EXCEPT !.ups = Undefined] ELSE nav
    ELSE IF isSpecialKey(data) THEN NoNav
    ELSE IF IsEnter(data) THEN [mode |-> "entered", t |-> <<>>, ups |-> 0]
    ELSE [mode |-> "typed", t |-> Text(w2), ups |-> Undefined]

scenarioAfterInput(w, data) ==
    IF inputAccepted(w) /\ IsEnter(data)
    THEN LET c == SubmittedText(w, data)
         IN IF scenarioB.ok /\ c # <<>> /\ c = trim(c) /\ c \notin Range(scenarioB.cmds)
            THEN [ok |-> TRUE, cmds |-> Append(scenarioB.cmds, c)]
            ELSE [ok |-> FALSE, cmds |-> <<>>]
    ELSE scenarioB

(***************************************************************************)
(* The callers of eval and feval: the execution commands and the command   *)
(* window, with the session they call                                      *)
(***************************************************************************)
MaxCommands == 1
MaxCalls == 4

\* the MVMUnpauseRequest notification among the continuations and the
\* messages sent
UnpauseRequest == 0

\* MVM.unpause
unpause == AttachSend(UnpauseRequest)

\* a value passed as an argument
Js(type, items) == [type |-> type, items |-> items]

JsUndefined == Js("undefined", <<>>)

\* the value counts as true in a condition
isTruthy(value) ==
    CASE value.type = "boolean" -> value.items = <<TRUE>>
      [] value.type = "number" -> value.items # <<0>>
      [] value.type = "string" -> value.items \notin {<<>>, <<"">>}
      [] value.type \in {"undefined", "null"} -> FALSE
      [] OTHER -> TRUE

\* MVM.eval(command, isUserEval = true, capabilitiesToRemove?) called with
\* the arguments given: the request it makes.  The default of isUserEval
\* applies when the argument is left out and when it is undefined.
evalRequest(arguments) ==
    [kind |-> "eval",
     isUserEval |-> IF Len(arguments) >= 2 /\ arguments[2] # JsUndefined
                    THEN isTruthy(arguments[2])
                    ELSE TRUE,
     capabilitiesToRemove |-> IF Len(arguments) >= 3 THEN arguments[3] ELSE JsUndefined]

\* MVM.feval(functionName, nargout, args, capabilitiesToRemove?) called with
\* the arguments given: the request it makes
fevalRequest(arguments) ==
    [kind |-> "feval",
     isUserEval |-> FALSE,
     capabilitiesToRemove |-> IF Len(arguments) >= 4 THEN arguments[4] ELSE JsUndefined]

\* a call of eval or feval: who makes it, the request, and whether the
\* caller handles a rejection of the promise it gets back
Call(caller, request, catches) ==
    [caller |-> caller, request |-> request, catches |-> catches]

\* handleRunFile for a saved file: await feval('mdbfileonpath', ...) in a try block
handleRunFile ==
    Call("handleRunFile",
         fevalRequest(<<Js("string", <<"mdbfileonpath">>), Js("number", <<2>>),
                        Js("array", <<"filePath">>)>>),
         TRUE)

\* handleRunSection for a section that was found in a saved file
handleRunSection ==
    Call("handleRunSection",
         fevalRequest(<<Js("string", <<"matlab.internal.editor.evaluateCode">>),
                        Js("number", <<0>>), Js("array", <<"args">>),
                        Js("boolean", <<TRUE>>), Js("array", <<"Debugging">>)>>),
         FALSE)

handleAddFolderToPath ==
    Call("handleAddFolderToPath",
         fevalRequest(<<Js("string", <<"addpath">>), Js("number", <<0>>),
                        Js("array", <<"fsPath">>)>>),
         FALSE)

handleAddFolderAndSubfoldersToPath ==
    Call("handleAddFolderAndSubfoldersToPath",
         evalRequest(<<Js("string", <<"addpath(genpath(fsPath))">>)>>),
         FALSE)

handleChangeDirectory ==
    Call("handleChangeDirectory",
         fevalRequest(<<Js("string", <<"cd">>), Js("number", <<0>>),
                        Js("array", <<"fsPath">>)>>),
         FALSE)

handleOpenFile ==
    Call("handleOpenFile",
         fevalRequest(<<Js("string", <<"open">>), Js("number", <<0>>),
                        Js("array", <<"fsPath">>)>>),
         FALSE)

\* handleRunFile for a file with unsaved changes, after the save:
\* await feval('fschange', ...) and await feval('clear', ...) in a try block
handleRunFileFschange ==
    Call("handleRunFile",
         fevalRequest(<<Js("string", <<"fschange">>), Js("number", <<0>>),
                        Js("array", <<"filePath">>)>>),
         TRUE)

handleRunFileClear ==
    Call("handleRunFile",
         fevalRequest(<<Js("string", <<"clear">>), Js("number", <<0>>),
                        Js("array", <<"filePath">>)>>),
         TRUE)

\* _handleNotOnPath and _handleShadowedByPwd after the choice made in the
\* warning: await feval('addpath', ...) or await feval('cd', ...), inside the
\* try block of handleRunFile
handleNotOnPath(choice) ==
    Call("handleNotOnPath",
         fevalRequest(<<Js("string", IF choice = "Add to Path" THEN <<"addpath">>
                                     ELSE <<"cd">>),
                        Js("number", <<0>>), Js("array", <<"filePathWithoutFilename">>)>>),
         TRUE)

handleShadowedByPwd ==
    Call("handleShadowedByPwd",
         fevalRequest(<<Js("string", <<"cd">>), Js("number", <<0>>),
                        Js("array", <<"filePathWithoutFilename">>)>>),
         TRUE)

\* the commands that make one call and go on to nothing else
ExecutionCommands ==
    {handleRunSection, handleAddFolderToPath,
     handleAddFolderAndSubfoldersToPath, handleChangeDirectory, handleOpenFile}

\* the calls of eval that CommandWindow._evaluateCommand made on the last Enter
evaluateCommandCalls(w) ==
    [i \in 1..Len(w.evalCalls) |->
        Call(IF w.evalCalls[i].kind = "setCWSize" THEN "sendTerminalDimensionsIfNeeded"
             ELSE "evaluateCommand",
             evalRequest(<<Js("string", w.evalCalls[i].command)>>),
             FALSE)]

\* eval or feval called once for each of the calls, in order, in one turn
mvmRequests(newCalls) ==
    LET n == Len(newCalls)
        ids == [i \in 1..n |-> nextId + i - 1]
        request(id) == newCalls[id - nextId + 1].request
    IN /\ nextId' = nextId + n
       /\ requestMap' = [id \in (DOMAIN requestMap) \cup Range(ids) |->
                            IF id >= nextId THEN [isUserEval |-> request(id).isUserEval]
                            ELSE requestMap[id]]
       /\ promiseState' = [id \in (DOMAIN promiseState) \cup Range(ids) |->
                            IF id >= nextId THEN "pending" ELSE promiseState[id]]
       /\ pendingUserEvals' =
            pendingUserEvals + Len(SelectSeq(newCalls, LAMBDA call : call.request.isUserEval))
       /\ IF readyPromise = "resolved"
          THEN /\ microtasks' = microtasks \o ids
               /\ UNCHANGED thenQueue
          ELSE /\ thenQueue' = thenQueue \o ids
               /\ UNCHANGED microtasks
       /\ reqInfo' = [id \in (DOMAIN reqInfo) \cup Range(ids) |->
                        IF id >= nextId
                        THEN [kind |-> request(id).kind,
                              isUserEval |-> request(id).isUserEval,
                              deferred |-> (currentState = DISCONNECTED),
                              connectedSince |-> FALSE, dropped |-> FALSE,
                              answered |-> FALSE]
                        ELSE reqInfo[id]]
       /\ calls' = calls \o newCalls
       /\ UNCHANGED <<currentState, readyPromise, sent, deliveries, answeredOnce>>

\* the calls CommandWindow.handleInput makes on the session for the input
\* data: unpause in the PAUSE state, the evals of _evaluateCommand on Enter
InputCalls(w, data) ==
    IF w.initialized /\ w.currentState # "INITIALIZING" /\ w.currentState = "PAUSE"
    THEN /\ unpause
         /\ UNCHANGED <<currentState, pendingUserEvals, requestMap, readyPromise,
                        promiseState, nextId, sent, reqInfo, deliveries, answeredOnce, calls>>
    ELSE IF inputAccepted(w) /\ IsEnter(data)
         THEN mvmRequests(evaluateCommandCalls(handleInput(w, data)))
         ELSE UNCHANGED <<mvmVars, calls>>

\* the unpause requests made so far
Unpauses ==
    Len(SelectSeq(sent \o thenQueue \o microtasks, LAMBDA id : id = UnpauseRequest))

\* the bounds on the calls of an input: at most MaxRequests unpause requests
\* and at most maxCalls calls of eval and feval
CallsAllowed(w, data, maxCalls) ==
    IF w.initialized /\ w.currentState # "INITIALIZING" /\ w.currentState = "PAUSE"
    THEN Unpauses < MaxRequests
    ELSE (inputAccepted(w) /\ IsEnter(data)) =>
            nextId + Len(handleInput(w, data).evalCalls) - 1 <= maxCalls

\* CommandWindow.handleInput is called when no continuation is left to run;
\* the calls it makes on the session
SessionInput(data, maxCalls) ==
    /\ microtasks = <<>>
    /\ CallsAllowed(cw, data, maxCalls)
    /\ InputCalls(cw, data)

\* what an input leaves alone besides the command window and the session
inputFrame == <<treeVars, term, debug, observed, commands, serviceVars>>

\* CommandWindow.handleInput
HandleInput(data) ==
    LET w2 == handleInput(cw, data) IN
    /\ HeldChars(w2) <= MaxChars
    /\ cw' = w2
    /\ nav' = navAfterInput(cw, data, w2)
    /\ scenarioB' = scenarioAfterInput(cw, data)
    /\ SessionInput(data, MaxCalls)
    /\ UNCHANGED <<lastOp, inputFrame>>

\* the clc event of the session: CommandWindow.clear
Clc ==
    /\ microtasks = <<>>
    /\ cw' = clear(cw)
    /\ nav' = NoNav
    /\ UNCHANGED <<scenarioB, mvmVars, lastOp>>
    /\ UNCHANGED sideVars

\* the promptChange event of the session: CommandWindow._handlePromptChange
PromptChange(state) ==
    /\ microtasks = <<>>
    /\ cw' = handlePromptChange(cw, state)
    /\ nav' = NoNav
    /\ UNCHANGED <<scenarioB, mvmVars, lastOp>>
    /\ UNCHANGED sideVars

\* a state-change notification: the session handles it and emits stateChanged
\* to the command window
StateChanged(newState) ==
    /\ mvmHandleMatlabStateChange(newState)
    /\ cw' = cwHandleMatlabStateChange(cw, currentState, newState)
    /\ nav' = NoNav
    /\ UNCHANGED <<scenarioB, lastOp>>
    /\ UNCHANGED sideVars

NextCW ==
    \/ \E data \in Inputs : HandleInput(data)
    \/ SendRequest
    \/ Clc
    \/ \E state \in ReportedPromptStates : PromptChange(state)
    \/ \E newState \in MatlabState : StateChanged(newState)

SpecCW == Init /\ [][NextCW]_vars

(***************************************************************************)
(* Properties of the session                                               *)
(***************************************************************************)
ProgramState == <<currentState, pendingUserEvals, requestMap, readyPromise, thenQueue,
                  microtasks, promiseState, nextId, sent>>

\* the user evals called while the session was connected, with no
\* disconnection since: a disconnection empties the request table, and no
\* other step removes a request from it
ConnectedUserEvals ==
    {id \in DOMAIN requestMap : reqInfo[id].kind = "eval" /\ requestMap[id].isUserEval}

\* the session has stayed connected since every request it holds was called,
\* and none of them has been answered twice
StaysConnected ==
    /\ currentState # DISCONNECTED
    /\ \A id \in DOMAIN requestMap : ~reqInfo[id].deferred
    /\ answeredOnce

\* C1: while the session stays connected and every request is answered at
\* most once, the pending user-eval count equals the user evals called minus
\* the responses received, whatever the arrival order, and is zero once every
\* response has arrived.
C1_PendingAccounting ==
    StaysConnected =>
        /\ pendingUserEvals = Cardinality(ConnectedUserEvals)
                - Cardinality({id \in ConnectedUserEvals : reqInfo[id].answered})
        /\ ((\A id \in ConnectedUserEvals : reqInfo[id].answered) => pendingUserEvals = 0)

\* C2: handling a Disconnected notification rejects every outstanding promise,
\* empties the request table and zeroes the pending user-eval count; a later
\* response for a rejected request id changes nothing.
C2_DisconnectRejectsAll ==
    [][ /\ (lastOp'.name = "stateChange" /\ currentState' = DISCONNECTED) =>
            /\ DOMAIN requestMap' = {}
            /\ pendingUserEvals' = 0
            /\ \A id \in DOMAIN requestMap :
                    promiseState[id] = "pending" => promiseState'[id] = "rejected"
        /\ (lastOp'.name = "response" /\ promiseState[lastOp'.id] = "rejected") =>
            UNCHANGED ProgramState
      ]_vars

\* two outstanding requests were rejected by a disconnection and a response
\* for one of them arrived afterwards
C2_Witness ==
    /\ lastOp.name = "response"
    /\ Issued = {1, 2}
    /\ \A id \in Issued : promiseState[id] = "rejected"

\* C3 (Scenario A): a user eval issued while Disconnected and sent after the
\* transition to a connected state keeps getMatlabState() at Busy until its
\* response arrives; the response resolves the promise and the state is Ready.
C3_ScenarioA ==
    \A id \in Issued :
        (/\ reqInfo[id].kind = "eval"
         /\ reqInfo[id].isUserEval
         /\ reqInfo[id].deferred
         /\ WasSent(id)
         /\ currentState # DISCONNECTED
         /\ Issued = {id}) =>
            IF reqInfo[id].answered
            THEN promiseState[id] = "resolved" /\ getMatlabState = READY
            ELSE getMatlabState = BUSY

\* C4: a request notification is never sent while the session is Disconnected;
\* a request issued while Disconnected is sent only after a state change to a
\* connected state has been handled.
C4_NoSendWhileDisconnected ==
    [][ sent' # sent =>
            /\ currentState # DISCONNECTED
            /\ currentState' # DISCONNECTED
            /\ LET id == sent'[Len(sent')] IN
                    reqInfo[id].deferred => reqInfo[id].connectedSince
      ]_vars

\* a request issued while Disconnected has been sent
C4_Witness ==
    \E id \in Issued : reqInfo[id].deferred /\ WasSent(id)

\* C5: issuing feval, setBreakpoint, clearBreakpoint or a non-user eval, and
\* handling their responses, does not change getMatlabState(); it is
\* Disconnected exactly while the session is disconnected and otherwise Busy
\* iff the pending user-eval count is positive.
C5_NonUserFrame ==
    /\ [][ (\/ lastOp'.name = "request" /\ ~reqInfo'[lastOp'.id].isUserEval
            \/ lastOp'.name = "response" /\ ~reqInfo[lastOp'.id].isUserEval)
           => getMatlabState' = getMatlabState ]_vars
    /\ [](/\ (getMatlabState = DISCONNECTED) <=> (currentState = DISCONNECTED)
          /\ currentState # DISCONNECTED =>
                /\ (getMatlabState = BUSY) <=> (pendingUserEvals > 0)
                /\ (getMatlabState = READY) <=> (pendingUserEvals <= 0))

\* the response of a non-user request is handled while a user eval keeps the
\* session busy
C5_Witness ==
    /\ lastOp.name = "response"
    /\ ~reqInfo[lastOp.id].isUserEval
    /\ getMatlabState = BUSY

(***************************************************************************)
(* Properties of the command history                                       *)
(***************************************************************************)
Up == KeyInput("UP")

Down == KeyInput("DOWN")

\* the text the line shows after one more input is handled
TextAfter(data) == Text(handleInput(cw, data))

SameLetter(c, d) == c = d \/ {c, d} = {"a", "A"}

IsPrefixIgnoringCase(t, e) ==
    /\ Len(t) <= Len(e)
    /\ \A i \in 1..Len(t) : SameLetter(t[i], e[i])

\* the entries of the raw history that start with t, oldest first
MatchingEntries(t) ==
    LET Matches(e) == IsPrefixIgnoringCase(t, e)
    IN SelectSeq(cw.rawCommandHistory, Matches)

\* text t was typed on the live line and only Up and Down were pressed since
NavigatingFrom ==
    /\ nav.mode = "typed"
    /\ inputAccepted(cw)

AtEndOfHistory == cw.historyIndex = Len(cw.filteredCommandHistory)

\* C6: after typing text t, pressing Up any number of times and then Down
\* until navigation can go no further shows exactly t again: each Down moves
\* one position towards the end, and at the end the line shows t and a
\* further Down changes nothing.
C6_HistoryRestore ==
    NavigatingFrom =>
        IF AtEndOfHistory
        THEN /\ Text(cw) = nav.t
             /\ handleInput(cw, Down) = cw
        ELSE /\ cw.historyIndex < Len(cw.filteredCommandHistory)
             /\ handleInput(cw, Down).historyIndex = cw.historyIndex + 1

\* text that is no history entry was typed, Up recalled an entry and Down
\* came back to the end
C6_Witness ==
    /\ NavigatingFrom
    /\ AtEndOfHistory
    /\ nav.t # <<>>
    /\ nav.t \notin Range(cw.rawCommandHistory)
    /\ Len(cw.filteredCommandHistory) > 0
    /\ cw.lastKnownCurrentLine = nav.t
    /\ Text(cw) = nav.t

\* C7: after typing non-empty text t, navigation runs over exactly the raw
\* entries that start with t ignoring case, in raw order; the sequence is the
\* same for the whole navigation; the line shows the entry at the current
\* position, and Up moves to the next older matching entry, starting from
\* the newest.
C7_PrefixFilter ==
    (NavigatingFrom /\ nav.t # <<>>) =>
        /\ cw.filteredCommandHistory = MatchingEntries(nav.t)
        /\ cw.historyIndex \in 0..Len(cw.filteredCommandHistory)
        /\ ~AtEndOfHistory =>
                Text(cw) = MatchingEntries(nav.t)[cw.historyIndex + 1]
        /\ cw.historyIndex > 0 =>
                /\ handleInput(cw, Up).historyIndex = cw.historyIndex - 1
                /\ TextAfter(Up) = MatchingEntries(nav.t)[cw.historyIndex]
        /\ cw.historyIndex = 0 => handleInput(cw, Up) = cw

\* Up recalled an entry that differs from the typed text in case only, passing
\* over a newer entry that does not start with it
C7_Witness ==
    /\ NavigatingFrom
    /\ nav.t # <<>>
    /\ ~AtEndOfHistory
    /\ Text(cw) # nav.t
    /\ Len(cw.rawCommandHistory) = 2
    /\ ~IsPrefixIgnoringCase(nav.t, cw.rawCommandHistory[2])
    /\ Text(cw) = cw.rawCommandHistory[1]

\* the commands c1..cn of Scenario B: submitted from an empty history, each
\* non-empty, without surrounding whitespace, and different from the others
ScenarioB == scenarioB.ok /\ scenarioB.cmds # <<>>

\* C8 (Scenario B): from an empty history, after submitting distinct
\* non-empty commands c1..cn and leaving the line empty, the k-th consecutive
\* Up (k <= n) shows c(n-k+1), and a Down pressed next shows the next newer
\* command.
C8_ScenarioB ==
    LET n == Len(scenarioB.cmds)
        k == nav.ups
    IN (ScenarioB /\ inputAccepted(cw) /\ nav.mode = "entered" /\ k \in 1..n) =>
            /\ Text(cw) = scenarioB.cmds[n - k + 1]
            /\ k >= 2 => TextAfter(Down) = scenarioB.cmds[n - k + 2]

\* two distinct commands were submitted and Up was pressed twice
C8_Witness ==
    /\ ScenarioB
    /\ inputAccepted(cw)
    /\ nav.mode = "entered"
    /\ Len(scenarioB.cmds) = 2
    /\ nav.ups = 2
    /\ Text(cw) = scenarioB.cmds[1]

\* C9: whenever the text on the line is empty and Up is pressed, navigation
\* runs over the full raw history: the Up shows the newest raw entry, however
\* the line became empty.
C9_EmptyLineNavigatesRawHistory ==
    (/\ inputAccepted(cw)
     /\ Text(cw) = <<>>
     /\ cw.rawCommandHistory # <<>>) =>
        TextAfter(Up) = cw.rawCommandHistory[Len(cw.rawCommandHistory)]

\* C10: the raw history changes only when an Enter appends the trimmed text
\* it submits; no other operation changes it; no entry is empty and no two
\* adjacent entries are equal.
C10_RawHistoryAppendOnly ==
    /\ [][ cw'.rawCommandHistory # cw.rawCommandHistory =>
            /\ nav' = [mode |-> "entered", t |-> <<>>, ups |-> 0]
            /\ trim(Text(cw)) # <<>>
            /\ cw'.rawCommandHistory = Append(cw.rawCommandHistory, trim(Text(cw)))
         ]_vars
    /\ [](/\ \A i \in 1..Len(cw.rawCommandHistory) : cw.rawCommandHistory[i] # <<>>
          /\ \A i \in 1..(Len(cw.rawCommandHistory) - 1) :
                cw.rawCommandHistory[i] # cw.rawCommandHistory[i + 1])

\* two Enters have appended an entry each, and a third Enter that submitted
\* nothing to evaluate has left the history as it was
C10_Witness ==
    /\ Len(cw.rawCommandHistory) = 2
    /\ nav = [mode |-> "entered", t |-> <<>>, ups |-> 0]
    /\ Len(cw.rawCommandHistory[1]) = 1
    /\ Len(cw.rawCommandHistory[2]) = 1
    /\ cw.evalCalls # <<>>
    /\ cw.evalCalls[Len(cw.evalCalls)].command = <<>>

(***************************************************************************)
(* The line editor: cursor keys, selection and editing keys.  Every step   *)
(* records in lastOp the input it handled and the extent of the selection  *)
(* the input found (anchor minus cursor, 0 without a selection).           *)
(***************************************************************************)
SelectionExtent(w) ==
    IF w.anchorIndex = Undefined THEN 0 ELSE w.anchorIndex - w.cursorIndex

InputName(data) == IF isSpecialKey(data) THEN data.key ELSE "text"

\* CommandWindow.handleInput
Input(data) ==
    LET w2 == handleInput(cw, data) IN
    /\ HeldChars(w2) <= MaxChars
    /\ cw' = w2
    /\ lastOp' = Op(InputName(data), SelectionExtent(cw))
    /\ SessionInput(data, MaxCalls)
    /\ UNCHANGED <<nav, scenarioB, inputFrame>>

\* the promptChange event of the session: CommandWindow._handlePromptChange
PromptChanged(state) ==
    /\ microtasks = <<>>
    /\ cw' = handlePromptChange(cw, state)
    /\ lastOp' = Op("promptChange", 0)
    /\ UNCHANGED <<mvmVars, nav, scenarioB>>
    /\ UNCHANGED sideVars

\* a state-change notification, handled by the session and then by the
\* command window
MatlabStateChanged(newState) ==
    /\ mvmHandleMatlabStateChange(newState)
    /\ cw' = cwHandleMatlabStateChange(cw, currentState, newState)
    /\ lastOp' = Op("stateChange", 0)
    /\ UNCHANGED <<nav, scenarioB>>
    /\ UNCHANGED sideVars

CursorKeys == {"LEFT", "RIGHT", "HOME", "END",
               "SHIFT_LEFT", "SHIFT_RIGHT", "SHIFT_HOME", "SHIFT_END"}

DeleteKeys == {"BACKSPACE", "BACKSPACE_ALTERNATIVE", "DELETE"}

EditKeys == CursorKeys \cup DeleteKeys \cup {"SELECT_ALL"}

\* the texts typed while editing
EditTexts == {<<"a">>, <<"b">>}

EditInputs == {KeyInput(key) : key \in EditKeys} \cup {TextInput(text) : text \in EditTexts}

NextEdit ==
    \/ \E data \in EditInputs : Input(data)
    \/ \E state \in ReportedPromptStates : PromptChanged(state)
    \/ \E newState \in MatlabState : MatlabStateChanged(newState)

SpecEdit == Init /\ [][NextEdit]_vars

(***************************************************************************)
(* Properties of the line editor                                           *)
(***************************************************************************)
Min(a, b) == IF a < b THEN a ELSE b

Max(a, b) == IF a < b THEN b ELSE a

HasSelection(w) == w.anchorIndex # Undefined /\ w.anchorIndex # w.cursorIndex

\* the text without the selected characters
TextOutsideSelection(w) ==
    SubSeq(Text(w), 1, Min(w.cursorIndex, w.anchorIndex))
        \o SubSeq(Text(w), Max(w.cursorIndex, w.anchorIndex) + 1, Len(Text(w)))

\* the text with ins in place of the selected characters
TextReplacingSelection(w, ins) ==
    SubSeq(Text(w), 1, Min(w.cursorIndex, w.anchorIndex))
        \o ins
        \o SubSeq(Text(w), Max(w.cursorIndex, w.anchorIndex) + 1, Len(Text(w)))

\* C11: with a non-empty selection, Backspace and Delete remove exactly the
\* selected characters, clear the selection and leave the cursor at
\* min(cursor, anchor), whichever way the selection was made; typed text
\* replaces the selection and the cursor ends behind the typed text.
C11_SelectionDeletion ==
    [][ (inputAccepted(cw) /\ HasSelection(cw)) =>
            /\ lastOp'.name \in DeleteKeys =>
                /\ Text(cw') = TextOutsideSelection(cw)
                /\ cw'.anchorIndex = Undefined
                /\ cw'.cursorIndex = Min(cw.cursorIndex, cw.anchorIndex)
                /\ cw'.currentPrompt = cw.currentPrompt
            /\ lastOp'.name = "text" =>
                \E text \in EditTexts :
                    /\ Text(cw') = TextReplacingSelection(cw, text)
                    /\ cw'.anchorIndex = Undefined
                    /\ cw'.cursorIndex = Min(cw.cursorIndex, cw.anchorIndex) + Len(text)
      ]_vars

\* Backspace has removed a selection that was made towards the right and
\* that did not cover the whole line
C11_Witness ==
    /\ lastOp.name = "BACKSPACE"
    /\ lastOp.id < 0
    /\ cw.anchorIndex = Undefined
    /\ Text(cw) # <<>>

(***************************************************************************)
(* Tab completion.  nav records the completion request that was pending    *)
(* when a cursor key last moved the cursor.                                *)
(***************************************************************************)
CompletionKeys == {"TAB", "SHIFT_TAB"}

\* the keys pressed around a completion: the cursor keys, with the selection
\* made towards the left, and the keys that edit the line
TabKeys ==
    CompletionKeys
        \cup {"LEFT", "RIGHT", "HOME", "END", "SHIFT_LEFT", "SHIFT_HOME"}
        \cup {"BACKSPACE", "DELETE", "ESCAPE", "PASTE"}

\* the text typed before completions are asked for
TabTexts == {<<"a">>}

TabInputs == {KeyInput(key) : key \in TabKeys} \cup {TextInput(text) : text \in TabTexts}

\* the lists of completion items a response carries
CompletionLists ==
    {<<>>, <<<<"a", "b">>>>, <<<<"a">>, <<"a", "b">>, <<"b">>>>}

movedAfterInput(w, data, w2) ==
    IF /\ inputAccepted(w)
       /\ data.key \in CursorKeys
       /\ w.pendingTabCompletionPromise = "pending"
       /\ w2.cursorIndex # w.cursorIndex
    THEN [mode |-> "moved", t |-> <<>>, ups |-> w.pendingTabCompletionRequestNumber]
    ELSE nav

\* CommandWindow.handleInput
TabInput(data) ==
    LET w2 == handleInput(cw, data) IN
    /\ HeldChars(w2) <= MaxChars
    /\ w2.pendingTabCompletionRequestNumber < MaxTabRequests
    /\ cw' = w2
    /\ nav' = movedAfterInput(cw, data, w2)
    /\ lastOp' = Op(InputName(data), 0)
    /\ SessionInput(data, MaxCalls)
    /\ UNCHANGED <<scenarioB, inputFrame>>

\* the TerminalCompletionResponse notification
CompletionResponse(requestId, result) ==
    LET w2 == handleCompletionDataResponse(cw, requestId, result) IN
    /\ microtasks = <<>>
    /\ requestId <= cw.pendingTabCompletionRequestNumber
    /\ HeldChars(w2) <= MaxChars
    /\ cw' = w2
    /\ lastOp' = Op("completionResponse", requestId)
    /\ UNCHANGED <<mvmVars, nav, scenarioB>>
    /\ UNCHANGED sideVars

\* the session connects and reports the idle prompt; it stays connected
\* while completions are asked for
ConnectedStates == {READY}

IdlePromptStates == {"READY"}

NextTab ==
    \/ \E data \in TabInputs : TabInput(data)
    \/ \E requestId \in 0..(MaxTabRequests - 1), result \in CompletionLists :
            CompletionResponse(requestId, result)
    \/ \E state \in IdlePromptStates : PromptChanged(state)
    \/ \E newState \in ConnectedStates : MatlabStateChanged(newState)

SpecTab == Init /\ [][NextTab]_vars

(***************************************************************************)
(* Properties of tab completion                                            *)
(***************************************************************************)
\* C12: when a cursor key has moved the cursor while a completion request
\* was pending, the response to that request changes neither the text of the
\* line nor the cursor index.
C12_MovedCursorDiscardsResponse ==
    [][ (/\ lastOp'.name = "completionResponse"
         /\ nav.mode = "moved"
         /\ nav.ups = lastOp'.id) =>
            /\ Text(cw') = Text(cw)
            /\ cw'.cursorIndex = cw.cursorIndex
      ]_vars

CachedList(w) == w.latestTabCompletionData.defined

\* the input handled by the step moved the cursor, edited the line, was a
\* paste or was Escape
InvalidatingInput ==
    /\ inputAccepted(cw)
    /\ \/ lastOp'.name \in CursorKeys /\ cw'.cursorIndex # cw.cursorIndex
       \/ lastOp'.name \in DeleteKeys /\ Text(cw') # Text(cw)
       \/ lastOp'.name \in {"text", "PASTE", "ESCAPE"}

\* C13: once a completion list is cached, every cursor movement, edit, paste
\* and Escape discards it, so that the next Tab sends a new request.
C13_CacheInvalidated ==
    [][ (CachedList(cw) /\ InvalidatingInput) => ~CachedList(cw') ]_vars

Tab == KeyInput("TAB")

ShiftTab == KeyInput("SHIFT_TAB")

RECURSIVE TabTimes(_, _)
TabTimes(w, k) == IF k = 0 THEN w ELSE TabTimes(handleInput(w, Tab), k - 1)

SelectedCompletion(w) == w.latestTabCompletionData.items[w.currentCompletionIndex + 1]

\* a list of at least one item is cached and keys are handled
Cycling(w) ==
    /\ inputAccepted(w)
    /\ CachedList(w)
    /\ Len(w.latestTabCompletionData.items) >= 1

\* C20: with a cached list of n >= 1 items, Tab advances the completion index
\* by one modulo n and Shift+Tab moves it back by one modulo n; Tab followed by
\* Shift+Tab selects the same completion as before, and so do n Tabs.
C20_TabCycling ==
    /\ [][ Cycling(cw) =>
            LET n == Len(cw.latestTabCompletionData.items) IN
            /\ lastOp'.name = "TAB" =>
                /\ cw'.currentCompletionIndex = (cw.currentCompletionIndex + 1) % n
                /\ cw'.latestTabCompletionData = cw.latestTabCompletionData
            /\ lastOp'.name = "SHIFT_TAB" =>
                /\ cw'.currentCompletionIndex = (cw.currentCompletionIndex + n - 1) % n
                /\ cw'.latestTabCompletionData = cw.latestTabCompletionData
         ]_vars
    /\ [](Cycling(cw) =>
            LET n == Len(cw.latestTabCompletionData.items) IN
            /\ cw.currentCompletionIndex \in 0..(n - 1)
            /\ SelectedCompletion(handleInput(handleInput(cw, Tab), ShiftTab))
                    = SelectedCompletion(cw)
            /\ SelectedCompletion(TabTimes(cw, n)) = SelectedCompletion(cw))

\* Shift+Tab has gone back from the first to the last of three different
\* completions, which is now on the line
C20_Witness ==
    /\ lastOp.name = "SHIFT_TAB"
    /\ Cycling(cw)
    /\ Len(cw.latestTabCompletionData.items) = 3
    /\ cw.currentCompletionIndex = 2
    /\ Text(cw) = cw.latestTabCompletionData.items[3]

(***************************************************************************)
(* The documents whose sections are searched                               *)
(***************************************************************************)
\* the ranges a section can have
Sections ==
    {section \in [start : 0..MaxLine, end : 0..MaxLine] : section.start <= section.end}

\* the lists of sections a document can have
SectionLists == UNION {[1..n -> Sections] : n \in 0..MaxSections}

\* new LineRangeTree(sections), for the sections of any document
NewLineRangeTree ==
    /\ MVMInit
    /\ CWInit
    /\ lastOp = Op("init", 0)
    /\ \E sectionRanges \in SectionLists : tree = set(sectionRanges)
    /\ findLine = Undefined
    /\ findResult = NoSection
    /\ term = NoTerminal
    /\ DebugInit
    /\ calls = <<>>
    /\ observed = NothingObserved
    /\ commands = <<>>
    /\ ServiceInit
    /\ DebuggingInit

\* LineRangeTree.find
Find(line) ==
    /\ findLine' = line
    /\ findResult' = find(tree, line)
    /\ lastOp' = Op("find", 0)
    /\ UNCHANGED <<mvmVars, cwVars, tree, term, callVars>>

NextTree == \E line \in 0..(MaxLine + 1) : Find(line)

SpecTree == NewLineRangeTree /\ [][NextTree]_vars

(***************************************************************************)
(* Properties of the section tree                                          *)
(***************************************************************************)
InRange(section, line) == section.start <= line /\ line <= section.end

Disjoint(a, b) == a.end < b.start \/ b.end < a.start

\* the range of inner lies within the range of outer
Nested(outer, inner) == outer.start <= inner.start /\ inner.end <= outer.end

\* the sections are in the order of their start lines, and any two of them
\* are disjoint or nested with the outer one first
WellNested(sectionRanges) ==
    \A i, j \in 1..Len(sectionRanges) :
        i < j =>
            /\ sectionRanges[i].start <= sectionRanges[j].start
            /\ \/ Disjoint(sectionRanges[i], sectionRanges[j])
               \/ Nested(sectionRanges[i], sectionRanges[j])

\* the sections of the list that contain the line
Containing(sectionRanges, line) ==
    {sectionRanges[i] : i \in {j \in 1..Len(sectionRanges) : InRange(sectionRanges[j], line)}}

\* the innermost of the sections that contain the line
Innermost(sectionRanges, line) ==
    IF Containing(sectionRanges, line) = {} THEN NoSection
    ELSE CHOOSE inner \in Containing(sectionRanges, line) :
            \A outer \in Containing(sectionRanges, line) : Nested(outer, inner)

\* C14: for sections in start order that are pairwise disjoint or nested,
\* outer first, find(L) returns the innermost section whose inclusive range
\* contains L, and undefined when no section contains L.
C14_FindInnermost ==
    (findLine # Undefined /\ WellNested(tree.section)) =>
        findResult = Innermost(tree.section, findLine)

\* find returned the innermost of three nested sections, which is not the
\* first one that contains the line
C14_Witness ==
    /\ findLine # Undefined
    /\ WellNested(tree.section)
    /\ Len(tree.section) = 3
    /\ Nested(tree.section[1], tree.section[2])
    /\ Nested(tree.section[2], tree.section[3])
    /\ tree.section[1] # tree.section[2]
    /\ tree.section[2] # tree.section[3]
    /\ findResult = tree.section[3]

\* find returned undefined for a line that lies between two sections
C14_WitnessUndefined ==
    /\ findLine # Undefined
    /\ WellNested(tree.section)
    /\ Len(tree.section) = 2
    /\ tree.section[1].end < findLine
    /\ findLine < tree.section[2].start
    /\ findResult = NoSection

(***************************************************************************)
(* Multi-line input: text with line breaks arrives as one input, as a      *)
(* paste delivers it, and the command it submits is recalled and edited.   *)
(***************************************************************************)
\* the characters of a string that are not part of a line break
Letters(str) == SelectSeq(str, LAMBDA c : c \notin {CR, LF})

RECURSIVE TotalLetters(_)
TotalLetters(seq) ==
    IF seq = <<>> THEN 0 ELSE Len(Letters(Head(seq))) + TotalLetters(Tail(seq))

\* the letters held on the line, which may show a recalled entry, and in
\* the history entries: the greater of the two counts
HeldLetters(w) ==
    IF Len(Letters(Text(w))) > TotalLetters(w.rawCommandHistory)
    THEN Len(Letters(Text(w)))
    ELSE TotalLetters(w.rawCommandHistory)

\* text of more than one line whose last line is not empty takes case 3 of
\* handleText, and so does text of more than two lines
IsMultiLine(data) ==
    /\ ~isSpecialKey(data)
    /\ LET lines == preprocessInputLines(data.text)
       IN Len(lines) > 2 \/ (Len(lines) = 2 /\ Len(lines[2]) # 0)

\* multi-line texts: two lines, two lines with a line break at the end, and
\* texts of line breaks and spaces only
MultiLineTexts ==
    {<<"a", LF, "b">>, <<"b", CR, LF, "a", LF>>, <<LF, LF>>, <<" ", LF, " ">>}

PasteTexts == MultiLineTexts \cup {<<"a">>}

RecallKeys == {"UP", "LEFT", "RIGHT"}

PasteInputs == {KeyInput(key) : key \in RecallKeys} \cup {TextInput(text) : text \in PasteTexts}

PasteInputName(data) == IF IsMultiLine(data) THEN "multiline" ELSE InputName(data)

(***************************************************************************)
(* Properties of multi-line input                                          *)
(***************************************************************************)
\* the whole text submitted when the multi-line input arrives at the cursor
\* of the line w holds, trimmed, with every line break written as LF
FullText(w, data) ==
    trim(normalizeNewlines(SubSeq(Text(w), 1, w.cursorIndex))
         \o normalizeNewlines(data.text)
         \o normalizeNewlines(SubSeq(Text(w), w.cursorIndex + 1, Len(Text(w)))))

\* the commands the last input asked the session to evaluate
CommandsEvaluated(w) ==
    SelectSeq(w.evalCalls, LAMBDA call : call.kind = "command")

\* the input makes one evaluation request, and the command it carries has
\* the lines of the full trimmed text
OneEvaluation(w, data) ==
    LET evaluated == CommandsEvaluated(handleInput(w, data)) IN
    /\ Len(evaluated) = 1
    /\ normalizeNewlines(evaluated[1].command) = FullText(w, data)

\* the command the input asked the session to evaluate
Evaluated(w, data) == CommandsEvaluated(handleInput(w, data))[1].command

NewestEntry(w) ==
    IF w.rawCommandHistory = <<>> THEN <<>>
    ELSE w.rawCommandHistory[Len(w.rawCommandHistory)]

\* the multi-line input is taken while no text is selected
TakesMultiLine(w) == inputAccepted(w) /\ w.anchorIndex = Undefined

\* C16: a multi-line input makes exactly one evaluation request, for the
\* full trimmed text; the history gets exactly one new entry, equal to the
\* text evaluated, unless that text is empty or equals the newest entry, and
\* then the history stays as it is.
C16_OneEvaluationOneEntry ==
    \A data \in {TextInput(text) : text \in MultiLineTexts} :
        TakesMultiLine(cw) =>
            /\ OneEvaluation(cw, data)
            /\ handleInput(cw, data).rawCommandHistory =
                    IF Evaluated(cw, data) \in {<<>>, NewestEntry(cw)}
                    THEN cw.rawCommandHistory
                    ELSE Append(cw.rawCommandHistory, Evaluated(cw, data))

\* C16 as stated: every multi-line input makes exactly one evaluation request
\* for the full trimmed text and adds exactly one history entry equal to it.
C16_AlwaysOneNewEntry ==
    \A data \in {TextInput(text) : text \in MultiLineTexts} :
        TakesMultiLine(cw) =>
            /\ OneEvaluation(cw, data)
            /\ handleInput(cw, data).rawCommandHistory =
                    Append(cw.rawCommandHistory, Evaluated(cw, data))

\* a two-line input has been evaluated as one command and is the one entry
\* of the history
C16_Witness ==
    /\ lastOp.name = "multiline"
    /\ cw.rawCommandHistory = << <<"a", CR, LF, "b">> >>
    /\ CommandsEvaluated(cw) = <<[kind |-> "command", command |-> <<"a", CR, LF, "b">>]>>
    /\ Text(cw) = <<>>

\* the cursor is at the first column of a logical line of the text: a line
\* break ends just before it
AtLogicalLineStart(w) ==
    /\ w.cursorIndex >= 2
    /\ Text(w)[w.cursorIndex - 1] = CR
    /\ Text(w)[w.cursorIndex] = LF

\* the cursor is at the end of a logical line that is followed by another
AtLogicalLineEnd(w) ==
    /\ w.cursorIndex + 2 <= Len(Text(w))
    /\ Text(w)[w.cursorIndex + 1] = CR
    /\ Text(w)[w.cursorIndex + 2] = LF

\* C17: in a recalled multi-line command one Left from the first column of a
\* logical line puts the cursor at the end of the previous logical line, and
\* one Right from the end of a logical line puts it at the first column of the
\* next one.
C17_LineBreakIsOnePosition ==
    (inputAccepted(cw) /\ cw.anchorIndex = Undefined) =>
        /\ AtLogicalLineStart(cw) =>
                AtLogicalLineEnd(handleInput(cw, KeyInput("LEFT")))
        /\ AtLogicalLineEnd(cw) =>
                AtLogicalLineStart(handleInput(cw, KeyInput("RIGHT")))

(***************************************************************************)
(* Input while the prompt is not ready: the terminal is opened, the        *)
(* session reports its states and prompts, and keys arrive at any time.    *)
(* The MVMUnpauseRequest notification is the entry UnpauseRequest of the   *)
(* continuations and of the messages sent.                                 *)
(***************************************************************************)
PauseKeys == {"LEFT", "SHIFT_LEFT", "BACKSPACE", "UP"}

PauseTexts == {<<"a">>, <<"a", CR>>}

PauseInputs == {KeyInput(key) : key \in PauseKeys} \cup {TextInput(text) : text \in PauseTexts}

\* the prompt states the session reports around a pause
PausePromptStates == {"READY", "PAUSE"}

\* CommandWindow.handleInput and the call it makes on the session
PauseInput(data) ==
    /\ HeldChars(handleInput(cw, data)) <= MaxChars
    /\ cw' = handleInput(cw, data)
    /\ SessionInput(data, MaxRequests)
    /\ lastOp' = Op("input", 0)
    /\ UNCHANGED <<nav, scenarioB, inputFrame>>

\* CommandWindow.open
Open ==
    /\ microtasks = <<>>
    /\ cw' = open(cw, NoDimensions, getMatlabState)
    /\ lastOp' = Op("open", 0)
    /\ UNCHANGED <<mvmVars, nav, scenarioB, sideVars>>

\* the promptChange event, which arrives when no continuation is left to run
PausePromptChanged(state) ==
    /\ microtasks = <<>>
    /\ PromptChanged(state)

NextPause ==
    \/ \E data \in PauseInputs : PauseInput(data)
    \/ SendRequest
    \/ Open
    \/ \E state \in PausePromptStates : PausePromptChanged(state)
    \/ \E newState \in MatlabState : MatlabStateChanged(newState)

SpecPause == Init /\ [][NextPause]_vars

(***************************************************************************)
(* Properties of input while the prompt is not ready                       *)
(***************************************************************************)
\* C19: while the terminal is not initialized or the prompt state is
\* Initializing, handleInput changes nothing and sends nothing; in Pause each
\* handleInput call leaves the command window as it is and issues one unpause
\* request, which is sent once.
C19_NoEditUnlessReady ==
    /\ [][ lastOp'.name = "input" =>
            /\ (~cw.initialized \/ cw.currentState = "INITIALIZING") =>
                    /\ cw' = cw
                    /\ UNCHANGED <<sent, microtasks, thenQueue>>
            /\ (cw.initialized /\ cw.currentState = "PAUSE") =>
                    /\ cw' = cw
                    /\ microtasks' = <<UnpauseRequest>>
                    /\ UNCHANGED <<sent, thenQueue>>
         ]_vars
    /\ [][ lastOp'.name = "send" =>
            /\ sent' = Append(sent, Head(microtasks))
            /\ microtasks' = Tail(microtasks)
         ]_vars
    /\ [](cw.initialized => readyPromise = "resolved")

\* two keys pressed during a pause have each sent an unpause request, and the
\* text typed before the pause is still on the line
C19_Witness ==
    /\ lastOp.name = "send"
    /\ sent = <<UnpauseRequest, UnpauseRequest>>
    /\ cw.initialized
    /\ cw.currentState = "PAUSE"
    /\ Text(cw) = <<"a">>

(***************************************************************************)
(* The command window and its terminal: the terminal is opened with its    *)
(* dimensions, keys and output arrive, and the terminal receives every     *)
(* write.  Lines are of one logical line.                                  *)
(***************************************************************************)
\* the width of the terminal: the prompt and one character fill a row
TermColumns == {4}

\* the height of the terminal
TermRows == 2

TermDimensions == {[rows |-> TermRows, columns |-> c] : c \in TermColumns}

TermKeys == {"LEFT", "RIGHT", "SHIFT_LEFT", "UP"}

TermTexts == {<<"a">>, <<CR>>}

TermInputs == {KeyInput(key) : key \in TermKeys} \cup {TextInput(text) : text \in TermTexts}

\* the output of the session: text on either stream, text with a line break
\* at its end, a line break alone, and one control character
Outputs ==
    {TextEvent(text, stream) : text \in {<<"b">>, <<CR, LF>>, <<BEL>>}, stream \in {0, 1}}
        \cup {TextEvent(<<"b", LF>>, 0)}

\* CommandWindow.open for a new terminal
TermOpen(initialDimensions) ==
    /\ microtasks = <<>>
    /\ cw' = open(cw, initialDimensions, getMatlabState)
    /\ term' = receiveAll(NewTerminal(initialDimensions),
                          openWrites(cw, initialDimensions, getMatlabState))
    /\ lastOp' = Op("open", 0)
    /\ UNCHANGED <<mvmVars, nav, scenarioB, treeVars, callVars>>

\* CommandWindow.handleInput
TermInput(data) ==
    /\ HeldChars(handleInput(cw, data)) <= MaxChars
    /\ cw' = handleInput(cw, data)
    /\ term' = receiveAll(term, handleInputWrites(cw, data))
    /\ lastOp' = Op(InputName(data), 0)
    /\ SessionInput(data, MaxRequests)
    /\ UNCHANGED <<nav, scenarioB, treeVars, debug, observed, commands, serviceVars>>

\* CommandWindow.addOutput
TermOutput(output) ==
    /\ microtasks = <<>>
    /\ Len(addOutput(cw, output).lastOutputLine) <= MaxChars
    /\ cw' = addOutput(cw, output)
    /\ term' = receiveAll(term, addOutputWrites(cw, output))
    /\ lastOp' = Op("output", 0)
    /\ UNCHANGED <<mvmVars, nav, scenarioB, treeVars, callVars>>

\* the promptChange event of the session: CommandWindow._handlePromptChange
TermPromptChanged(state) ==
    /\ microtasks = <<>>
    /\ cw' = handlePromptChange(cw, state)
    /\ term' = receiveAll(term, handlePromptChangeWrites(cw, state))
    /\ lastOp' = Op("promptChange", 0)
    /\ UNCHANGED <<mvmVars, nav, scenarioB, treeVars, callVars>>

\* a state-change notification, handled by the session and then by the
\* command window
TermStateChanged(newState) ==
    /\ mvmHandleMatlabStateChange(newState)
    /\ cw' = cwHandleMatlabStateChange(cw, currentState, newState)
    /\ term' = receiveAll(term, cwHandleMatlabStateChangeWrites(cw, currentState, newState))
    /\ lastOp' = Op("stateChange", 0)
    /\ UNCHANGED <<nav, scenarioB, treeVars, callVars>>

NextTerm ==
    \/ \E initialDimensions \in TermDimensions : TermOpen(initialDimensions)
    \/ \E data \in TermInputs : TermInput(data)
    \/ SendRequest
    \/ \E output \in Outputs : TermOutput(output)
    \/ \E state \in IdlePromptStates : TermPromptChanged(state)
    \/ \E newState \in ConnectedStates : TermStateChanged(newState)

SpecTerm == Init /\ [][NextTerm]_vars

\* the width the command window takes the terminal to have
Columns == cw.terminalDimensions.columns

\* the position of the cursor in the line, counted from the start of the prompt
AbsoluteIndex == getAbsoluteIndexOnLine(cw, cw.cursorIndex)

\* the row of the terminal's cursor, counted from the row the line starts on
TermRow(t) == t.row - t.origin

(***************************************************************************)
(* C15: Left from a cursor whose absolute index is a positive multiple of  *)
(* the column count takes one from cursorIndex and puts the terminal's     *)
(* cursor in the last column of the row before; Right from the last column *)
(* adds one to cursorIndex and puts the terminal's cursor in column 0 of   *)
(* the next row.                                                           *)
(***************************************************************************)
C15_WrapAwareLeftRight ==
    /\ [][ ( /\ lastOp'.name = "LEFT"
             /\ inputAccepted(cw)
             /\ cw.cursorIndex # 0
             /\ AbsoluteIndex % Columns = 0 ) =>
                /\ cw'.cursorIndex = cw.cursorIndex - 1
                /\ TermRow(term') = (AbsoluteIndex \div Columns) - 1
                /\ term'.col = Columns - 1 ]_vars
    /\ [][ ( /\ lastOp'.name = "RIGHT"
             /\ inputAccepted(cw)
             /\ cw.cursorIndex # getMaxIndexOnLine(cw)
             /\ AbsoluteIndex % Columns = Columns - 1 ) =>
                /\ cw'.cursorIndex = cw.cursorIndex + 1
                /\ TermRow(term') = (AbsoluteIndex \div Columns) + 1
                /\ term'.col = 0 ]_vars

\* what addOutput leaves of the line being edited and of the history
OutputKeepsInput(w, output) ==
    LET after == addOutput(w, output) IN
    /\ after.currentPromptLine = w.currentPromptLine
    /\ Text(after) = Text(w)
    /\ after.cursorIndex = w.cursorIndex
    /\ after.anchorIndex = w.anchorIndex
    /\ after.rawCommandHistory = w.rawCommandHistory
    /\ after.filteredCommandHistory = w.filteredCommandHistory
    /\ after.historyIndex = w.historyIndex

\* the writes of addOutput without the colour reset that ends output on the
\* error stream
OutputWrites(w, output) ==
    LET writes == addOutputWrites(w, output) IN
    IF writes # <<>> /\ writes[Len(writes)] = KeyWrite("ALL_DEFAULT_COLORS", 0)
    THEN SubSeq(writes, 1, Len(writes) - 1)
    ELSE writes

\* the writes of addOutput end with the prompt line as it is, selection and
\* cursor included, written at the start of a row: after a line break or on
\* the cleared row
EndsWithPromptLine(w, output) ==
    LET writes == OutputWrites(w, output)
        promptLine == writeCurrentPromptLineWrites(w, FALSE)
        before == Len(writes) - Len(promptLine)
    IN /\ before >= 1
       /\ SubSeq(writes, before + 1, Len(writes)) = promptLine
       /\ writes[before] \in {NEWLINE, TextWrite(<<>>)}

\* the colour sequences addOutput puts around output on the error stream
ColourWrites == {KeyWrite("RED_FOREGROUND", 0), KeyWrite("ALL_DEFAULT_COLORS", 0)}

\* addOutput writes no text and no prompt line: nothing at all for the
\* output stream, the two colour sequences alone for the error stream
WritesNoText(w, output) ==
    LET writes == addOutputWrites(w, output) IN
    /\ \A i \in 1..Len(writes) : writes[i] \in ColourWrites
    /\ output.stream = 0 => writes = <<>>

(***************************************************************************)
(* C18: in every state, adding any output leaves the prompt line, the      *)
(* typed text, the cursor index, the selection anchor and the history as   *)
(* they are.  When the command window is initialized and the text is not   *)
(* dropped, the writes end with the current prompt line, written again     *)
(* after the output.  While the command window is not initialized nothing  *)
(* is written, and an output whose text is dropped writes no text and no   *)
(* prompt line: nothing on the output stream, the two colour sequences on  *)
(* the error stream.                                                       *)
(***************************************************************************)
C18_OutputKeepsInput ==
    \A output \in Outputs :
        /\ OutputKeepsInput(cw, output)
        /\ (cw.initialized /\ ~outputDropped(TextInput(output.text))) =>
                EndsWithPromptLine(cw, output)
        /\ ~cw.initialized => addOutputWrites(cw, output) = <<>>
        /\ (cw.initialized /\ outputDropped(TextInput(output.text))) =>
                WritesNoText(cw, output)

\* C18 as the specification states it: every output text event ends by
\* writing the prompt line again
C18_EveryOutputRewritesPrompt ==
    \A output \in Outputs :
        /\ OutputKeepsInput(cw, output)
        /\ EndsWithPromptLine(cw, output)

\* output was added below a part line of output while text is typed, with the
\* cursor inside the text and a selection
C18_Witness ==
    /\ lastOp.name = "output"
    /\ cw.initialized
    /\ cw.lastOutputLine = <<"b", "b">>
    /\ Text(cw) = <<"a", "a">>
    /\ cw.cursorIndex = 1
    /\ cw.anchorIndex = 2
    /\ cw.rawCommandHistory = <<<<"a">>>>

(***************************************************************************)
(* The debug adaptors: the host dispatches requests through an adaptor,    *)
(* and the server's response notifications reach every adaptor.            *)
(***************************************************************************)
DebugCommands == {"initialize", "next"}

\* the requests of the host: each debug session numbers its own
DebugRequests == [command : DebugCommands, seq : 1..MaxDebugRequests]

\* the file names of the documents the editor opens
FileNames == {<<"a", ".", "m">>, <<"m", ".", "c">>}

\* the documents that are open when the session connects
TextDocuments == {<<>>, <<<<"a", ".", "m">>>>}

\* the tags a response notification carries: the ids of the adaptors, and
\* tags that are no adaptor's id
ResponseTags == 0..3

\* the host dispatches a request through the i-th adaptor
DispatchRequest(i, request) ==
    /\ Len(debug.requests) < MaxDebugRequests
    /\ debug' = dispatchRequest(debug, i, request)
    /\ lastOp' = Op("dispatchRequest", i)
    /\ UNCHANGED <<mvmVars, cwVars, treeVars, term, calls, observed, commands, serviceVars>>

\* vscode.workspace.onDidOpenTextDocument: the editor opens a document, and
\* the listener of the i-th adaptor, a base adaptor, is called with it
DidOpenTextDocument(i, fileName) ==
    /\ Len(debug.requests) < MaxDebugRequests
    /\ debug.adaptors[i].isBase
    /\ debug' = sendCacheFilePathRequest(debug, i, fileName)
    /\ lastOp' = IF debug' # debug THEN Op("dispatchRequest", i)
                 ELSE Op("didOpenTextDocument", i)
    /\ UNCHANGED <<mvmVars, cwVars, treeVars, term, calls, observed, commands, serviceVars>>

\* MatlabDebugAdaptor.handleDisconnect of the i-th adaptor: it calls
\* sendEvent twice, with an exited and with a terminated event
handleDisconnect(d, i) == [d EXCEPT !.events = <<i, i>>]

\* the adaptor MatlabDebugger keeps as _baseDebugAdaptor
BaseDebugAdaptor(d) == CHOOSE i \in 1..Len(d.adaptors) : d.adaptors[i].isBase

\* MatlabDebugger._handleMvmStateChange: on a change to disconnected the
\* base adaptor ends its session
handleMvmStateChange(d, newState) ==
    IF newState = DISCONNECTED THEN handleDisconnect(d, BaseDebugAdaptor(d)) ELSE d

\* a state-change notification: the session handles it and calls its
\* listeners, those of the base adaptor, of the debugger and of the command
\* window
DebugStateChanged(newState, textDocuments) ==
    /\ mvmHandleMatlabStateChange(newState)
    /\ debug' = handleMvmStateChange(
                    setupDocumentListeners(debug, 1, currentState, newState, textDocuments),
                    newState)
    /\ cw' = cwHandleMatlabStateChange(cw, currentState, newState)
    /\ lastOp' = Op("stateChange", 0)
    /\ UNCHANGED <<nav, scenarioB, treeVars, term, calls, observed, commands, serviceVars>>

\* a response with the command of the request it answers and with its tag
PackagedResponse(command, request_seq, tag) ==
    [debugResponse |-> [command |-> command, request_seq |-> request_seq], tag |-> tag]

\* the DebugAdaptorResponse notification
ResponseNotification(packagedResponse) ==
    /\ debug' = [debug EXCEPT !.responses =
                    handleResponseNotification(debug.adaptors, packagedResponse, 1)]
    /\ lastOp' = Op("debugResponse", packagedResponse.tag)
    /\ UNCHANGED <<mvmVars, cwVars, treeVars, term, calls, observed, commands, serviceVars>>

NextDebug ==
    \/ \E i \in 1..Len(debug.adaptors), request \in DebugRequests :
            DispatchRequest(i, request)
    \/ \E i \in 1..Len(debug.adaptors), fileName \in FileNames :
            DidOpenTextDocument(i, fileName)
    \/ \E newState \in MatlabState, textDocuments \in TextDocuments :
            DebugStateChanged(newState, textDocuments)
    \/ \E command \in DebugCommands \cup {"cacheFilePath"},
          request_seq \in (1..MaxDebugRequests) \cup {0 - 1},
          tag \in ResponseTags :
            ResponseNotification(PackagedResponse(command, request_seq, tag))

SpecDebug == Init /\ [][NextDebug]_vars

\* the adaptors that forwarded the last response notification to the host
Forwarders == {debug.responses[k].adaptor : k \in 1..Len(debug.responses)}

\* the adaptors whose packaged request the response answers
Senders(request_seq, tag) ==
    {i \in 1..Len(debug.adaptors) :
        /\ \E k \in 1..Len(debug.requests) :
                /\ debug.requests[k].debugRequest.seq = request_seq
                /\ debug.requests[k].tag = tag
        /\ debug.adaptors[i].debugAdaptorId = tag}

(***************************************************************************)
(* C21: a response notification is forwarded to the host by an adaptor if  *)
(* and only if its tag is that adaptor's id; the adaptors have distinct    *)
(* ids, so at most one adaptor forwards it, each forwards it once and      *)
(* unchanged, and a response that answers a sent request is forwarded by   *)
(* no adaptor but the one that sent the request.                           *)
(***************************************************************************)
C21_ForwardedByTaggedAdaptorOnly ==
    /\ \A i, j \in 1..Len(debug.adaptors) :
            debug.adaptors[i].debugAdaptorId = debug.adaptors[j].debugAdaptorId => i = j
    /\ lastOp.name = "debugResponse" =>
            /\ Forwarders = {i \in 1..Len(debug.adaptors) :
                                debug.adaptors[i].debugAdaptorId = lastOp.id}
            /\ Cardinality(Forwarders) <= 1
            /\ Len(debug.responses) = Cardinality(Forwarders)
            /\ \A k \in 1..Len(debug.responses) :
                    LET response == debug.responses[k].response IN
                    /\ response # Null
                    /\ Senders(response.request_seq, lastOp.id) \subseteq
                            {debug.responses[k].adaptor}

\* both adaptors have sent a request; the response to the nested adaptor's
\* request was forwarded by the nested adaptor alone
C21_Witness ==
    /\ lastOp = Op("debugResponse", 2)
    /\ Len(debug.requests) = 2
    /\ debug.requests[1].tag = 1
    /\ debug.requests[2].tag = 2
    /\ debug.responses = <<[adaptor |-> 2,
                            response |-> [command |-> "next", request_seq |-> 2]]>>

(***************************************************************************)
(* TerminalService: one MATLAB terminal, opened on request.  A creation    *)
(* promise is named by the number of the call that made it; a terminal by  *)
(* the order in which the window created it.                               *)
(***************************************************************************)
MaxOpenCalls == 3

\* terminals the window makes from the terminal profile in one behaviour
MaxProfileTerminals == 1

\* TerminalService.openTerminalOrBringToFront, up to its await: with a
\* terminal the call returns, without one it creates a terminal and a new
\* creation promise and waits for that promise
openTerminalOrBringToFront(s) ==
    LET call == s.calls + 1 IN
    IF s.currentMatlabTerminal # Undefined
    THEN [s EXCEPT !.calls = call, !.returned = @ \cup {call}]
    ELSE [s EXCEPT !.calls = call,
                   !.terminals = @ + 1,
                   !.windowTerminals = @ + 1,
                   !.terminalCreationPromise = call]

\* TerminalService.closeTerminal: the current terminal is disposed of; the
\* window reports it closed later
closeTerminal(s) ==
    IF s.currentMatlabTerminal # Undefined
    THEN [s EXCEPT !.disposed = @ \cup {s.currentMatlabTerminal}]
    ELSE s

\* MatlabTerminalProvider.provideTerminalProfile: the window makes a terminal
\* from the profile it returns, a terminal named MATLAB that createTerminal
\* of the service did not make
provideTerminalProfile(s) ==
    [closeTerminal(s) EXCEPT !.windowTerminals = @ + 1]

\* the listener of vscode.window.onDidOpenTerminal for a terminal named MATLAB
onDidOpenTerminal(s, terminal) ==
    [s EXCEPT !.currentMatlabTerminal = terminal,
              !.opened = @ \cup {terminal},
              !.timers = @ + 1]

\* the callback of setTimeout in that listener: it resolves the creation
\* promise the service holds now, and the call awaiting that promise returns
creationTimeout(s) ==
    [s EXCEPT !.timers = @ - 1,
              !.returned = IF s.terminalCreationPromise # Undefined
                           THEN @ \cup {s.terminalCreationPromise}
                           ELSE @]

\* the listener of vscode.window.onDidCloseTerminal
onDidCloseTerminal(s, terminal) ==
    [s EXCEPT !.closed = @ \cup {terminal},
              !.currentMatlabTerminal =
                  IF terminal = s.currentMatlabTerminal THEN Undefined ELSE @]

(***************************************************************************)
(* The execution commands, step by step                                    *)
(***************************************************************************)
\* an execution command at a point of its code.  pc names what it awaits
\* there: "openTerminal" and "openTerminalAgain" a call of
\* openTerminalOrBringToFront, "ready" the ready promise, "save" the save of
\* the document, "notOnPathChoice" and "shadowedByPwdChoice" the answer to a
\* warning, any other the promise of a request; awaits is the call or the
\* request.  A command that awaits nothing more is at "done".  text is the
\* selection that handleRunSelection read before its first await.
Command(caller, pc, awaits) ==
    [caller |-> caller, pc |-> pc, awaits |-> awaits, text |-> <<>>]

\* what the command awaits has been settled: its continuation is queued
Settled(c) ==
    CASE c.pc \in {"done", "save", "notOnPathChoice", "shadowedByPwdChoice"} -> FALSE
      [] c.pc \in {"openTerminal", "openTerminalAgain"} -> c.awaits \in service.returned
      [] c.pc = "ready" -> readyPromise = "resolved"
      [] OTHER -> promiseState[c.awaits] # "pending"

\* the continuation of a command is queued: it runs before anything else is
\* handled
ContinuationReady == \E i \in 1..Len(commands) : Settled(commands[i])

\* no continuation is left to run: the next event is handled
EventLoopIdle == microtasks = <<>> /\ ~ContinuationReady

\* a call of openTerminalOrBringToFront that no execution command makes
OpenTerminalOrBringToFront ==
    /\ EventLoopIdle
    /\ service.calls < MaxOpenCalls
    /\ service' = openTerminalOrBringToFront(service)
    /\ lastOp' = Op("openTerminal", service.calls + 1)
    /\ UNCHANGED <<mvmVars, cwVars, treeVars, term, debug, calls, observed, commands, debugging>>

\* TerminalService.closeTerminal, called by the extension when the
\* connection to MATLAB ends or is restarted
CloseTerminal ==
    /\ EventLoopIdle
    /\ service' = closeTerminal(service)
    /\ lastOp' = Op("closeTerminal", 0)
    /\ UNCHANGED <<mvmVars, cwVars, treeVars, term, debug, calls, observed, commands, debugging>>

\* the user picks the MATLAB terminal profile
ProvideTerminalProfile ==
    /\ EventLoopIdle
    /\ service.windowTerminals - service.terminals < MaxProfileTerminals
    /\ service' = provideTerminalProfile(service)
    /\ lastOp' = Op("provideTerminalProfile", service.windowTerminals + 1)
    /\ UNCHANGED <<mvmVars, cwVars, treeVars, term, debug, calls, observed, commands, debugging>>

\* the window reports a terminal named MATLAB as open, made by createTerminal
\* of the service or from the terminal profile
DidOpenTerminal(terminal) ==
    /\ EventLoopIdle
    /\ terminal \in (1..service.windowTerminals) \ service.opened
    /\ service' = onDidOpenTerminal(service, terminal)
    /\ lastOp' = Op("didOpenTerminal", terminal)
    /\ UNCHANGED <<mvmVars, cwVars, treeVars, term, debug, calls, observed, commands, debugging>>

\* 100 ms after a terminal was reported open
CreationTimeout ==
    /\ EventLoopIdle
    /\ service.timers > 0
    /\ service' = creationTimeout(service)
    /\ lastOp' = Op("creationTimeout", 0)
    /\ UNCHANGED <<mvmVars, cwVars, treeVars, term, debug, calls, observed, commands, debugging>>

\* the window reports an open terminal as closed: the user closed it, or it
\* was disposed of
DidCloseTerminal(terminal) ==
    /\ EventLoopIdle
    /\ terminal \in service.opened \ service.closed
    /\ service' = onDidCloseTerminal(service, terminal)
    /\ lastOp' = Op("didCloseTerminal", terminal)
    /\ UNCHANGED <<mvmVars, cwVars, treeVars, term, debug, calls, observed, commands, debugging>>

\* an execution command is run when no continuation is left to run
CommandStarts ==
    /\ EventLoopIdle
    /\ Len(commands) < MaxCommands
    /\ service.calls < MaxOpenCalls

\* CommandWindow.insertCommandForEval, the state it leaves
lineForInsertion(w) ==
    IF w.currentPromptLine # w.currentPrompt THEN setToEmptyPrompt(w) ELSE w

insertCommandForEval(w, command) ==
    handleInput(lineForInsertion(w), TextInput(command \o <<CR, LF>>))

\* CommandWindow.insertCommandForEval with the calls it makes on the session
InsertCommandForEval(command) ==
    /\ cw' = insertCommandForEval(cw, command)
    /\ InputCalls(lineForInsertion(cw), TextInput(command \o <<CR, LF>>))
    /\ UNCHANGED <<nav, scenarioB>>

\* the command that runs the file /w/a.m, and the texts of a selection
CommandToRun == <<"a">>

Selections == {<<>>, <<"a">>}

\* what a result of mdbfileonpath carries: an error, or a FILE_PATH_STATE in
\* result[1] (the states from PFILE on are handled alike)
MdbfileonpathResults ==
    {"error", "FILE_NOT_ON_PATH", "FILE_WILL_RUN", "FILE_SHADOWED_BY_PWD",
     "FILE_SHADOWED_BY_TBX", "PFILE"}

\* the buttons of the warning of _handleNotOnPath; the warning of
\* _handleShadowedByPwd has the last two
Choices == {"Add to Path", "Change Folder", "Cancel"}

\* the answers to a warning: a button, or undefined when it is dismissed
Answers(pc) ==
    (IF pc = "notOnPathChoice" THEN Choices ELSE Choices \ {"Add to Path"})
        \cup {"undefined"}

\* the call of the command that makes one call
CallOf(caller) == CHOOSE call \in ExecutionCommands : call.caller = caller

\* command i of cmds makes the call and awaits its promise at pc
CommandCalls(cmds, i, call, pc) ==
    /\ mvmRequests(<<call>>)
    /\ commands' = [cmds EXCEPT ![i].pc = pc, ![i].awaits = nextId]
    /\ UNCHANGED cwVars

\* command i of cmds awaits at pc something that is no request
CommandAwaits(cmds, i, pc, awaits) ==
    /\ commands' = [cmds EXCEPT ![i].pc = pc, ![i].awaits = awaits]
    /\ UNCHANGED <<mvmVars, calls, cwVars>>

\* command i of cmds returns
CommandReturns(cmds, i) ==
    /\ commands' = [cmds EXCEPT ![i].pc = "done"]
    /\ UNCHANGED <<mvmVars, calls, cwVars>>

\* command i of cmds submits the command to run and returns
CommandInserts(cmds, i, command) ==
    /\ InsertCommandForEval(command)
    /\ commands' = [cmds EXCEPT ![i].pc = "done"]

\* the document of the editor as handleRunFile finds it when it reads it,
\* after an await: closed or not, untitled or not, with changes or not, and
\* its file name
Documents ==
    [isClosed : BOOLEAN, isUntitled : BOOLEAN, isDirty : BOOLEAN,
     fileName : {<<"a", ".", "m">>, <<"a", ".", "t">>}]

\* a saved file a.m
SavedFile ==
    [isClosed |-> FALSE, isUntitled |-> FALSE, isDirty |-> FALSE,
     fileName |-> <<"a", ".", "m">>]

\* handleRunFile from the second test of isUntitled on: it returns for an
\* untitled document and for a file whose name does not end in .m, and asks
\* whether the file is on the path otherwise
RunFileOnPath(cmds, i, document) ==
    IF document.isUntitled \/ ~endsWith(document.fileName, <<".", "m">>)
    THEN CommandReturns(cmds, i)
    ELSE CommandCalls(cmds, i, handleRunFile, "mdbfileonpath")

\* command i of cmds after its await of getReadyPromise() has returned:
\* handleRunSelection submits the selection; handleRunFile returns when the
\* document was closed or is untitled, saves a document with changes, and
\* goes on to the file name otherwise; the other commands make their call
AfterReady(cmds, i, document) ==
    /\ lastOp' = Op(cmds[i].caller, nextId)
    /\ CASE cmds[i].caller = "handleRunSelection" ->
                CommandInserts([cmds EXCEPT ![i].awaits = 0], i, cmds[i].text)
         [] cmds[i].caller = "handleRunFile" ->
                CASE document.isClosed \/ document.isUntitled -> CommandReturns(cmds, i)
                  [] document.isDirty -> CommandAwaits(cmds, i, "save", 0)
                  [] OTHER -> RunFileOnPath(cmds, i, document)
         [] OTHER -> CommandCalls(cmds, i, CallOf(cmds[i].caller), "done")

\* command i of cmds after its await of openTerminalOrBringToFront() has
\* returned: it awaits the ready promise, and goes on when that is resolved
AfterOpenTerminal(cmds, i, document) ==
    IF readyPromise = "resolved"
    THEN AfterReady(cmds, i, document)
    ELSE /\ CommandAwaits(cmds, i, "ready", 0)
         /\ lastOp' = Op("getReadyPromise", i)

\* command i of cmds calls openTerminalOrBringToFront and awaits it at pc;
\* with a terminal the call returns and the command goes on with next
CommandOpensTerminal(cmds, i, pc, next) ==
    /\ service' = openTerminalOrBringToFront(service)
    /\ IF service.currentMatlabTerminal # Undefined
       THEN next
       ELSE /\ CommandAwaits(cmds, i, pc, service.calls + 1)
            /\ lastOp' = Op("openTerminal", service.calls + 1)

\* an execution command is run, up to the first await that does not return
\* at once: text is the selection, document the document as the command
\* finds it after its await of the ready promise
CommandRuns(caller, text, document) ==
    LET cmds == Append(commands, [Command(caller, "openTerminal", service.calls + 1)
                                    EXCEPT !.text = text])
    IN /\ CommandStarts
       /\ CommandOpensTerminal(cmds, Len(cmds), "openTerminal",
                               AfterOpenTerminal(cmds, Len(cmds), document))
       /\ UNCHANGED <<treeVars, term, debug, observed, debugging>>

\* an execution command that makes one call
ExecutionCommand(call) == CommandRuns(call.caller, <<>>, SavedFile)

\* handleRunFile
RunFile(document) == CommandRuns("handleRunFile", <<>>, document)

\* handleRunSelection
RunSelection(text) == CommandRuns("handleRunSelection", text, SavedFile)

\* an execution command after an await: the call of
\* openTerminalOrBringToFront it awaited has returned, the ready promise was
\* resolved, or the promise of the feval it awaited was settled, by a
\* response carrying result or by a disconnection
CommandContinues(i, document, result) ==
    /\ microtasks = <<>>
    /\ i \in 1..Len(commands)
    /\ Settled(commands[i])
    /\ UNCHANGED <<treeVars, term, debug, observed, debugging>>
    /\ CASE commands[i].pc = "openTerminal" ->
                /\ AfterOpenTerminal(commands, i, document)
                /\ UNCHANGED service
         [] commands[i].pc = "ready" ->
                /\ AfterReady(commands, i, document)
                /\ UNCHANGED service
         [] commands[i].pc = "openTerminalAgain" ->
                /\ CommandInserts(commands, i, CommandToRun)
                /\ lastOp' = Op("handleRunFileContinues", i)
                /\ UNCHANGED service
         [] OTHER ->
                IF promiseState[commands[i].awaits] = "rejected"
                THEN /\ CommandReturns(commands, i)
                     /\ lastOp' = Op("handleRunFileContinues", i)
                     /\ UNCHANGED service
                ELSE CASE commands[i].pc = "fschange" ->
                            /\ CommandCalls(commands, i, handleRunFileClear, "clear")
                            /\ lastOp' = Op("handleRunFileContinues", i)
                            /\ UNCHANGED service
                       [] commands[i].pc = "clear" ->
                            /\ RunFileOnPath(commands, i, document)
                            /\ lastOp' = Op("handleRunFileContinues", i)
                            /\ UNCHANGED service
                       [] commands[i].pc = "mdbfileonpath" ->
                            /\ lastOp' = Op("handleRunFileContinues", i)
                            /\ UNCHANGED service
                            /\ CASE result = "FILE_WILL_RUN" ->
                                        CommandInserts(commands, i, CommandToRun)
                                 [] result \in {"FILE_NOT_ON_PATH",
                                                "FILE_SHADOWED_BY_TBX"} ->
                                        CommandAwaits(commands, i, "notOnPathChoice", 0)
                                 [] result = "FILE_SHADOWED_BY_PWD" ->
                                        CommandAwaits(commands, i, "shadowedByPwdChoice", 0)
                                 [] OTHER -> CommandReturns(commands, i)
                       [] OTHER ->
                            CommandOpensTerminal(commands, i, "openTerminalAgain",
                                /\ CommandInserts(commands, i, CommandToRun)
                                /\ lastOp' = Op("handleRunFileContinues", i))

\* editor.document.save() of handleRunFile completes: the command goes on
\* with feval('fschange', ...), whatever the state of the session is now
SaveCompletes(i) ==
    /\ EventLoopIdle
    /\ i \in 1..Len(commands)
    /\ commands[i].pc = "save"
    /\ CommandCalls(commands, i, handleRunFileFschange, "fschange")
    /\ lastOp' = Op("save", i)
    /\ UNCHANGED <<treeVars, term, debug, observed, serviceVars>>

\* the warning of _handleNotOnPath or _handleShadowedByPwd is answered
WarningAnswered(i, choice) ==
    /\ EventLoopIdle
    /\ i \in 1..Len(commands)
    /\ commands[i].pc \in {"notOnPathChoice", "shadowedByPwdChoice"}
    /\ choice \in Answers(commands[i].pc)
    /\ IF choice \in {"undefined", "Cancel"}
       THEN CommandReturns(commands, i)
       ELSE IF commands[i].pc = "notOnPathChoice"
            THEN CommandCalls(commands, i, handleNotOnPath(choice), "handleNotOnPath")
            ELSE CommandCalls(commands, i, handleShadowedByPwd, "handleShadowedByPwd")
    /\ lastOp' = Op("showWarningMessage", i)
    /\ UNCHANGED <<treeVars, term, debug, observed, serviceVars>>

\* the commands that await the ready promise when a disconnection rejects
\* it: each returns from its catch block
readyRejected(cmds, newState) ==
    [i \in 1..Len(cmds) |->
        IF newState = DISCONNECTED /\ cmds[i].pc = "ready"
        THEN [cmds[i] EXCEPT !.pc = "done"]
        ELSE cmds[i]]

\* the first MVMEvalComplete or MVMFevalComplete notification for a request
CommandResponse(id) ==
    /\ ~ContinuationReady
    /\ id \in Issued
    /\ ~reqInfo[id].answered
    /\ handleResponse({"eval", "feval"}, id, TRUE)

RunDimensions == {[rows |-> 2, columns |-> c] : c \in {4, 5}}

RunInputs == {TextInput(<<CR>>)}

\* CommandWindow.setDimensions
setDimensions(w, dimensions) == [w EXCEPT !.terminalDimensions = dimensions]

SetDimensions(dimensions) ==
    /\ microtasks = <<>>
    /\ cw' = setDimensions(cw, dimensions)
    /\ lastOp' = Op("setDimensions", 0)
    /\ UNCHANGED <<mvmVars, nav, scenarioB, sideVars>>

\* CommandWindow.handleInput, with the evaluations of an Enter requested
\* from the session
RunInput(data) ==
    /\ ~ContinuationReady
    /\ HeldChars(handleInput(cw, data)) <= MaxChars
    /\ cw' = handleInput(cw, data)
    /\ SessionInput(data, MaxCalls)
    /\ lastOp' = IF inputAccepted(cw) /\ IsEnter(data) THEN Op("enter", nextId)
                 ELSE Op(InputName(data), 0)
    /\ UNCHANGED <<nav, scenarioB, inputFrame>>

\* CommandWindow.handleInput for pasted text and the keys that go through a
\* recalled command, with the calls an Enter makes on the session
PasteInput(data) ==
    LET w2 == handleInput(cw, data) IN
    /\ HeldLetters(w2) <= MaxChars
    /\ cw' = w2
    /\ SessionInput(data, MaxCalls)
    /\ lastOp' = Op(PasteInputName(data), 0)
    /\ UNCHANGED <<nav, scenarioB, inputFrame>>

NextPaste ==
    \/ \E data \in PasteInputs : PasteInput(data)
    \/ SendRequest
    \/ \E state \in IdlePromptStates : PromptChanged(state)
    \/ \E newState \in ConnectedStates : MatlabStateChanged(newState)

SpecPaste == Init /\ [][NextPaste]_vars

\* the session at the moment _handleMatlabStateChange emits stateChanged,
\* had the listeners been called before the cleanup of a disconnection
atEmit_BeforeCleanup(newState) ==
    [state |-> IF newState = DISCONNECTED THEN DISCONNECTED
               ELSE IF pendingUserEvals > 0 THEN BUSY ELSE READY,
     requestMap |-> requestMap,
     promiseState |-> promiseState,
     pendingUserEvals |-> pendingUserEvals]

\* the session at the moment _handleMatlabStateChange emits stateChanged:
\* getMatlabState(), the request table, the promises and the count
atEmit(newState) ==
    IF newState = DISCONNECTED
    THEN [state |-> DISCONNECTED,
          requestMap |-> emptyMap,
          promiseState |-> rejectAll(requestMap),
          pendingUserEvals |-> 0]
    ELSE [state |-> IF pendingUserEvals > 0 THEN BUSY ELSE READY,
          requestMap |-> requestMap,
          promiseState |-> promiseState,
          pendingUserEvals |-> pendingUserEvals]

\* a state-change notification: the session handles it and calls its
\* listeners, the command window among them
RunStateChanged(newState) ==
    /\ ~ContinuationReady
    /\ mvmHandleMatlabStateChange(newState)
    /\ observed' = atEmit(newState)
    /\ cw' = cwHandleMatlabStateChange(cw, currentState, newState)
    /\ commands' = readyRejected(commands, newState)
    /\ lastOp' = Op("stateChange", 0)
    /\ UNCHANGED <<nav, scenarioB, treeVars, term, debug, calls, serviceVars>>

\* the promptChange event, which arrives when no continuation is left to run
RunPromptChanged(state) ==
    /\ ~ContinuationReady
    /\ PausePromptChanged(state)

\* the text typed before a command is run, and the number of characters
\* typed
TypedBeforeRun == {TextInput(<<"b">>)}

MaxTyped == 1

\* text is typed at the prompt of an idle session, before a command is run
TypeBeforeRun(data) ==
    /\ HeldChars(cw) < MaxTyped
    /\ cw.currentState # "PAUSE"
    /\ RunInput(data)

NextRun ==
    \/ \E call \in ExecutionCommands : ExecutionCommand(call)
    \/ \E i \in 1..MaxCommands : CommandContinues(i, SavedFile, "FILE_WILL_RUN")
    \/ OpenTerminalOrBringToFront
    \/ \E terminal \in 1..MaxOpenCalls : DidOpenTerminal(terminal)
    \/ CreationTimeout
    \/ \E terminal \in 1..MaxOpenCalls : DidCloseTerminal(terminal)
    \/ SendRequest
    \/ \E newState \in MatlabState : RunStateChanged(newState)
    \/ \E id \in DOMAIN reqInfo : CommandResponse(id)

SpecRun == Init /\ [][NextRun]_vars

\* the execution commands with the command window they submit to; the
\* terminals are those the commands create
NextCommands ==
    \/ \E call \in ExecutionCommands : ExecutionCommand(call)
    \/ \E document \in Documents : RunFile(document)
    \/ \E text \in Selections : RunSelection(text)
    \/ \E i \in 1..MaxCommands, document \in Documents, result \in MdbfileonpathResults :
            CommandContinues(i, document, result)
    \/ \E i \in 1..MaxCommands : SaveCompletes(i)
    \/ \E i \in 1..MaxCommands, choice \in Choices \cup {"undefined"} :
            WarningAnswered(i, choice)
    \/ \E terminal \in 1..(MaxOpenCalls + MaxCommands) : DidOpenTerminal(terminal)
    \/ CreationTimeout
    \/ \E terminal \in 1..(MaxOpenCalls + MaxCommands) : DidCloseTerminal(terminal)
    \/ \E data \in TypedBeforeRun : TypeBeforeRun(data)
    \/ \E state \in PausePromptStates : RunPromptChanged(state)
    \/ SendRequest
    \/ \E newState \in MatlabState : RunStateChanged(newState)
    \/ \E id \in DOMAIN reqInfo : CommandResponse(id)

SpecCommands == Init /\ [][NextCommands]_vars

NextEnter ==
    \/ \E data \in RunInputs : RunInput(data)
    \/ \E dimensions \in RunDimensions : SetDimensions(dimensions)
    \/ PausePromptChanged("READY")
    \/ SendRequest
    \/ \E newState \in MatlabState : RunStateChanged(newState)

SpecEnter == Init /\ [][NextEnter]_vars

(***************************************************************************)
(* Claims about the callers of eval and feval                              *)
(***************************************************************************)
\* C22: Run Section makes exactly one evaluation call, and the request sent
\* for that call carries a capabilitiesToRemove list that contains the
\* Debugging capability.
C22_RunSectionRemovesDebugging ==
    /\ lastOp.name = "handleRunSection" =>
            /\ lastOp.id = nextId - 1
            /\ calls[lastOp.id].caller = "handleRunSection"
    /\ \A id \in DOMAIN calls :
            (calls[id].caller = "handleRunSection" /\ WasSent(id)) =>
                /\ calls[id].request.capabilitiesToRemove.type = "array"
                /\ "Debugging" \in Range(calls[id].request.capabilitiesToRemove.items)

\* C23: a promise of eval or feval that a disconnection rejects has a
\* rejection handler of the caller on it, whoever the caller is.
C23_EveryRejectionHandled ==
    \A id \in DOMAIN calls : promiseState[id] = "rejected" => calls[id].catches

(***************************************************************************)
(* Claims about the session's count and request table                      *)
(***************************************************************************)
\* C24: the pending user-eval count is never negative, whatever eval calls,
\* responses (a response delivered twice included) and state-change
\* notifications (a repeated Ready included) the session handles.
C24_PendingNeverNegative == pendingUserEvals >= 0

\* a second response with the same id changes neither the count nor any
\* promise
SecondResponseDropped ==
    [][ (lastOp'.name = "response" /\ reqInfo[lastOp'.id].answered) =>
                /\ pendingUserEvals' = pendingUserEvals
                /\ promiseState' = promiseState ]_vars

\* C25: once the response for a request id has been handled the id is no
\* longer in the request table, and a second response with the same id
\* changes neither the pending user-eval count nor any promise.
C25_AnsweredRequestRemoved ==
    /\ [](\A id \in Issued : reqInfo[id].answered => id \notin DOMAIN requestMap)
    /\ SecondResponseDropped

\* C26: a request is sent at most once and only when the ready promise that
\* was current at the call resolves: on a transition to a connected state
\* exactly the requests waiting on the current ready promise are sent, and a
\* request whose ready promise a Disconnected notification rejected is never
\* sent, whatever happens later.
C26_SentOnceThroughCurrentReady ==
    /\ [](\A i, j \in 1..Len(sent) : sent[i] = sent[j] => i = j)
    /\ [](\A id \in Issued : reqInfo[id].dropped => ~WasSent(id))
    /\ [][ sent' # sent => readyPromise = "resolved" ]_vars
    /\ [][ (lastOp'.name = "stateChange" /\ currentState' # DISCONNECTED) =>
                Range(microtasks') =
                    {id \in Issued : ~WasSent(id) /\ ~reqInfo[id].dropped} ]_vars

\* the first request was dropped by a Disconnected notification; the second,
\* issued after it, has been sent after the reconnection and the first has not
C26_Witness ==
    /\ Issued = {1, 2}
    /\ reqInfo[1].dropped
    /\ reqInfo[2].deferred
    /\ sent = <<2>>
    /\ currentState # DISCONNECTED
    /\ microtasks = <<>>

\* C27: when a state change to Disconnected has been handled, what the
\* stateChanged listeners found when they ran is the session after the
\* cleanup: an empty request table, no promise still pending, a pending
\* user-eval count of 0 and getMatlabState() = Disconnected.
C27_CleanupBeforeListeners ==
    (lastOp.name = "stateChange" /\ currentState = DISCONNECTED) =>
        /\ observed.requestMap = emptyMap
        /\ \A id \in DOMAIN observed.promiseState : observed.promiseState[id] # "pending"
        /\ observed.pendingUserEvals = 0
        /\ observed.state = DISCONNECTED

\* a Disconnected notification was handled while a user eval that had been
\* sent was outstanding, and the listeners found its promise rejected and the
\* request table empty
C27_Witness ==
    /\ lastOp.name = "stateChange"
    /\ currentState = DISCONNECTED
    /\ \E id \in DOMAIN calls :
            /\ calls[id].request.isUserEval
            /\ WasSent(id)
            /\ ~reqInfo[id].answered
            /\ observed.promiseState[id] = "rejected"
            /\ observed.requestMap = emptyMap

(***************************************************************************)
(* Claims about edits of the line and the history position                 *)
(***************************************************************************)
\* the inputs that edit the line
LineEdits == {KeyInput("BACKSPACE"), KeyInput("DELETE"), TextInput(<<"a">>)}

\* the history that navigation from a line with text t goes through
ActiveHistory(t) == IF t = <<>> THEN cw.rawCommandHistory ELSE MatchingEntries(t)

\* C28: every edit of the line (typed text, Backspace or Delete of one
\* character or of the selection) leaves historyIndex at the end of the
\* active history, and the next Up recalls the newest entry that starts with
\* the edited text.
C28_EditResetsHistoryPosition ==
    \A data \in LineEdits :
        (inputAccepted(cw) /\ TextAfter(data) # Text(cw)) =>
            LET w == handleInput(cw, data)
                active == ActiveHistory(Text(w))
            IN /\ w.historyIndex = Len(w.filteredCommandHistory)
               /\ w.filteredCommandHistory = active
               /\ Text(handleInput(w, Up)) =
                    IF active = <<>> THEN Text(w) ELSE active[Len(active)]

(***************************************************************************)
(* The command window while the prompt changes under the typed text        *)
(***************************************************************************)
PromptInputs == {TextInput(<<"a">>), KeyInput("LEFT")}

\* the promptChange event; the step records the length of the prompt it replaces
PromptChangedFrom(state) ==
    /\ microtasks = <<>>
    /\ cw' = handlePromptChange(cw, state)
    /\ lastOp' = Op("promptChange", Len(cw.currentPrompt))
    /\ UNCHANGED <<mvmVars, nav, scenarioB, sideVars>>

NextPrompt ==
    \/ \E data \in PromptInputs : Input(data)
    \/ SendRequest
    \/ \E state \in PromptState : PromptChangedFrom(state)
    \/ \E newState \in MatlabState : MatlabStateChanged(newState)

SpecPrompt == Init /\ [][NextPrompt]_vars

\* the prompts a prompt state can give
Prompts == {IDLE_PROMPT, DEBUG_PROMPT, FAKE_INPUT_PROMPT, BUSY_PROMPT}

\* the characters of the line after the first n
After(line, n) == [i \in 1..(Len(line) - n) |-> line[n + i]]

\* C29: a prompt-state change keeps the typed text and cursorIndex: whatever
\* the previous and the new prompt are, the text after the prompt and the
\* cursor index are as before and the line is the new prompt followed by the
\* typed text.
C29_PromptChangeKeepsTypedText ==
    [][ lastOp'.name = "promptChange" =>
            LET typed == After(cw.currentPromptLine, Len(cw.currentPrompt)) IN
            /\ cw.currentPrompt \in Prompts
            /\ cw'.currentPrompt \in Prompts
            /\ After(cw'.currentPromptLine, Len(cw'.currentPrompt)) = typed
            /\ cw'.cursorIndex = cw.cursorIndex
            /\ cw'.currentPromptLine = cw'.currentPrompt \o typed
      ]_vars

\* the prompt changed from the empty prompt to the debug prompt with two
\* characters typed and the cursor between them
C29_Witness ==
    /\ lastOp = Op("promptChange", Len(BUSY_PROMPT))
    /\ cw.currentPrompt = DEBUG_PROMPT
    /\ cw.currentPromptLine = DEBUG_PROMPT \o <<"a", "a">>
    /\ cw.cursorIndex = 1

\* the prompt changed from the debug prompt to the input prompt under a
\* typed character
C29_WitnessBetweenPrompts ==
    /\ lastOp = Op("promptChange", Len(DEBUG_PROMPT))
    /\ cw.currentPrompt = FAKE_INPUT_PROMPT
    /\ cw.currentPromptLine = FAKE_INPUT_PROMPT \o <<"a">>

(***************************************************************************)
(* Claims about the evaluations of an Enter                                *)
(***************************************************************************)
\* the callers of the calls made by the step
NewCallers == [i \in 1..(Len(calls') - Len(calls)) |-> calls'[Len(calls) + i].caller]

\* the position of request id in the order of sending, 0 when it was not sent
SentAt(id) == IF WasSent(id) THEN CHOOSE i \in 1..Len(sent) : sent[i] = id ELSE 0

\* C30: on Enter the terminal dimensions are pushed by an eval if and only if
\* they differ from the dimensions pushed last or none was pushed since the
\* state of the command window was last reset; the push is made before the
\* eval of the submitted command, and its request is sent first.
C30_DimensionsPushedFirstWhenNeeded ==
    /\ [][ lastOp'.name = "enter" =>
            IF \/ cw.lastSentTerminalDimensions = NoDimensions
               \/ cw.lastSentTerminalDimensions # cw.terminalDimensions
            THEN NewCallers = <<"sendTerminalDimensionsIfNeeded", "evaluateCommand">>
            ELSE NewCallers = <<"evaluateCommand">> ]_vars
    /\ [](\A id \in DOMAIN calls :
            (/\ calls[id].caller = "evaluateCommand"
             /\ id > 1
             /\ calls[id - 1].caller = "sendTerminalDimensionsIfNeeded"
             /\ WasSent(id)) =>
                (WasSent(id - 1) /\ SentAt(id - 1) < SentAt(id)))

\* the first Enter pushed the dimensions, the second did not, the dimensions
\* being the same, and the three requests were sent in the order of the calls
C30_Witness ==
    /\ Len(calls) = 3
    /\ calls[1].caller = "sendTerminalDimensionsIfNeeded"
    /\ calls[2].caller = "evaluateCommand"
    /\ calls[3].caller = "evaluateCommand"
    /\ sent = <<1, 2, 3>>
    /\ cw.lastSentTerminalDimensions = cw.terminalDimensions

(***************************************************************************)
(* Claims about the command window across session state changes            *)
(***************************************************************************)
\* C31: a session state change to Disconnected or Busy resets the line to
\* the bare prompt, cursorIndex to 0 and the selection to none and leaves
\* rawHistory as it was; a notification whose old and new states are equal
\* changes nothing in the command window.
C31_StateChangeResetsLine ==
    [][ lastOp'.name = "stateChange" =>
            IF currentState' = currentState
            THEN cw' = cw
            ELSE currentState' \in {DISCONNECTED, BUSY} =>
                    /\ cw'.currentPromptLine = cw'.currentPrompt
                    /\ cw'.currentPrompt = cw.currentPrompt
                    /\ cw'.cursorIndex = 0
                    /\ cw'.anchorIndex = Undefined
                    /\ cw'.rawCommandHistory = cw.rawCommandHistory
      ]_vars

\* the session went busy with a command in the history
C31_Witness ==
    /\ lastOp.name = "stateChange"
    /\ currentState = BUSY
    /\ cw.rawCommandHistory = <<<<"a">>>>
    /\ cw.currentPromptLine = cw.currentPrompt
    /\ cw.cursorIndex = 0

(***************************************************************************)
(* Claims about completion requests                                        *)
(***************************************************************************)
\* C32: completion requests are single-slot.  The request number never
\* decreases and grows by one with each request; a new request leaves its own
\* promise as the only pending one, the promise and the list of the request
\* before being dropped; and a response changes the command window only if
\* its number is the number of the request sent last.
C32_SingleSlotCompletion ==
    /\ [][ cw'.pendingTabCompletionRequestNumber
                \in {cw.pendingTabCompletionRequestNumber,
                     cw.pendingTabCompletionRequestNumber + 1} ]_vars
    /\ [][ cw'.pendingTabCompletionRequestNumber # cw.pendingTabCompletionRequestNumber =>
                /\ cw'.pendingTabCompletionPromise = "pending"
                /\ ~cw'.latestTabCompletionData.defined
                /\ lastOp'.name \in CompletionKeys ]_vars
    /\ [][ (/\ lastOp'.name = "completionResponse"
            /\ lastOp'.id # cw.pendingTabCompletionRequestNumber) => cw' = cw ]_vars

\* the response of the first request arrived while the second request was
\* pending, with text on the line
C32_Witness ==
    /\ lastOp = Op("completionResponse", 0)
    /\ cw.pendingTabCompletionRequestNumber = 1
    /\ cw.pendingTabCompletionPromise = "pending"
    /\ Text(cw) = <<"a">>

(***************************************************************************)
(* The debug adaptors with the events of the debugger                      *)
(***************************************************************************)
MaxDebugEvents == 2

DebugEvents == {"initialized", "stopped", "terminate"}

EventsReceived == Len(SelectSeq(debug.log, LAMBDA entry : entry.kind = "event"))

\* the DebugAdaptorEvent notification
EventNotification(event) ==
    /\ EventsReceived < MaxDebugEvents
    /\ debug' = handleEventNotification(debug, event)
    /\ lastOp' = Op("debugEvent", 0)
    /\ UNCHANGED <<mvmVars, cwVars, treeVars, term, calls, observed, commands, serviceVars>>

\* MVM.isDebugging
isDebugging ==
    getMatlabState # DISCONNECTED /\ debugging.isCurrentlyDebugging

\* the listener of onDidChangeConfiguration in MatlabDebugger: when the
\* debugger is not to start by itself, or the session is disconnected, and
\* MATLAB is not debugging, the base adaptor ends its session
HandleDisconnect(i) ==
    /\ i = BaseDebugAdaptor(debug)
    /\ ~isDebugging
    /\ debug' = handleDisconnect(debug, i)
    /\ lastOp' = Op("handleDisconnect", i)
    /\ UNCHANGED <<mvmVars, cwVars, treeVars, term, calls, observed, commands, serviceVars>>

NextDebugEvents ==
    \/ \E i \in 1..Len(debug.adaptors) : HandleDisconnect(i)
    \/ \E i \in 1..Len(debug.adaptors), request \in DebugRequests :
            DispatchRequest(i, request)
    \/ \E i \in 1..Len(debug.adaptors), fileName \in FileNames :
            DidOpenTextDocument(i, fileName)
    \/ \E newState \in MatlabState, textDocuments \in TextDocuments :
            DebugStateChanged(newState, textDocuments)
    \/ \E event \in DebugEvents : EventNotification(event)

SpecDebugEvents == Init /\ [][NextDebugEvents]_vars

\* adaptor i dispatched an initialize request before the event received last,
\* and no terminate event was received between the two
InitializedBeforeLastEvent(i) ==
    \E p \in 1..(Len(debug.log) - 1) :
        /\ debug.log[p] = [kind |-> "request", name |-> "initialize", adaptor |-> i]
        /\ \A q \in (p + 1)..(Len(debug.log) - 1) :
                debug.log[q] # [kind |-> "event", name |-> "terminate", adaptor |-> 0]

\* C33: the nested adaptor forwards an event to the host only if its own
\* initialize request was dispatched before and no terminate event was
\* received since; an event that arrives before the initialize or after a
\* terminate is not forwarded by it.
C33_NestedForwardsOnlyWhileStarted ==
    lastOp.name = "debugEvent" =>
        \A i \in 1..Len(debug.adaptors) :
            (~debug.adaptors[i].isBase /\ i \in Range(debug.events)) =>
                InitializedBeforeLastEvent(i)

\* the nested adaptor was initialized and forwarded the terminate event; the
\* event after it was forwarded by no adaptor
C33_Witness ==
    /\ lastOp.name = "debugEvent"
    /\ debug.log = <<[kind |-> "request", name |-> "initialize", adaptor |-> 2],
                     [kind |-> "event", name |-> "terminate", adaptor |-> 0],
                     [kind |-> "event", name |-> "stopped", adaptor |-> 0]>>
    /\ debug.events = <<>>

\* the nested adaptor forwarded an event after its initialize request
C33_WitnessForwarded ==
    /\ lastOp.name = "debugEvent"
    /\ debug.log = <<[kind |-> "request", name |-> "initialize", adaptor |-> 2],
                     [kind |-> "event", name |-> "stopped", adaptor |-> 0]>>
    /\ debug.events = <<2>>

(***************************************************************************)
(* Claims about the terminal's cursor                                      *)
(***************************************************************************)
\* the keys and the text that move the cursor over a line of more than one row
CursorInputs ==
    {KeyInput(key) : key \in {"LEFT", "RIGHT", "HOME", "END"}} \cup {TextInput(<<"a">>)}

NextCursor ==
    \/ \E initialDimensions \in TermDimensions : TermOpen(initialDimensions)
    \/ \E data \in CursorInputs : TermInput(data)
    \/ \E output \in {TextEvent(<<"b", LF>>, 0)} : TermOutput(output)
    \/ \E state \in IdlePromptStates : TermPromptChanged(state)
    \/ \E newState \in ConnectedStates : TermStateChanged(newState)

SpecCursor == Init /\ [][NextCursor]_vars

\* the positions the terminal's cursor can be said to have, counted from the
\* first row of the prompt line: a cursor parked after the last column is
\* shown on the last column and is at the start of the next row
TermPositions ==
    IF term.pending
    THEN {[row |-> TermRow(term) + 1, col |-> 0],
          [row |-> TermRow(term), col |-> term.col]}
    ELSE {[row |-> TermRow(term), col |-> term.col]}

\* C34: after each keystroke and each output event that the command window
\* handles, the terminal's cursor is on row (prompt length + cursorIndex)
\* div columns and on column (prompt length + cursorIndex) mod columns of
\* the prompt line.
C34_CursorWhereTheIndexIs ==
    (/\ term.opened
     /\ inputAccepted(cw)
     /\ lastOp.name \in {"LEFT", "RIGHT", "HOME", "END", "text", "output"}) =>
        [row |-> AbsoluteIndex \div Columns, col |-> AbsoluteIndex % Columns]
            \in TermPositions


(***************************************************************************)
(* Repeated arrow sequences: the input of Alt+Click                        *)
(***************************************************************************)
MaxArrows == 2

\* the loops of the default case of _handleActionKeys: result ||= calls
\* _handleLeftRight only while result is false
RECURSIVE repeatedLeftRight(_, _, _, _)
repeatedLeftRight(w, direction, count, result) ==
    IF count = 0 \/ result THEN w
    ELSE repeatedLeftRight(handleLeftRight(w, direction, MOVE), direction, count - 1,
                           handleLeftRightDirties(w, direction, MOVE))

\* CommandWindow.handleInput for an input matching LEFT_REGEX or RIGHT_REGEX
\* with count sequences
handleRepeatedArrows(w, direction, count) ==
    IF inputAccepted(w) THEN repeatedLeftRight(w, direction, count, FALSE) ELSE w

\* count inputs of one arrow sequence each
RECURSIVE separatePresses(_, _, _)
separatePresses(w, direction, count) ==
    IF count = 0 THEN w
    ELSE separatePresses(handleInput(w, KeyInput(direction)), direction, count - 1)

\* CommandWindow.handleInput for such an input, with the call it makes on
\* the session at the PAUSE prompt
RepeatedArrows(direction, count) ==
    /\ cw' = handleRepeatedArrows(cw, direction, count)
    /\ lastOp' = Op(direction \o "_REPEATED", count)
    /\ SessionInput(KeyInput(direction), MaxCalls)
    /\ UNCHANGED <<nav, scenarioB, inputFrame>>

ArrowInputs ==
    {KeyInput(key) : key \in {"LEFT", "RIGHT", "SHIFT_LEFT", "SHIFT_RIGHT"}}
        \cup {TextInput(<<"a">>)}

NextArrows ==
    \/ \E data \in ArrowInputs : Input(data)
    \/ \E direction \in {"LEFT", "RIGHT"} :
          \E count \in 2..MaxArrows : RepeatedArrows(direction, count)
    \/ \E state \in IdlePromptStates : PromptChanged(state)
    \/ \E newState \in ConnectedStates : MatlabStateChanged(newState)

SpecArrows == Init /\ [][NextArrows]_vars

\* C35: an input of count Left (or Right) arrow sequences leaves the
\* cursorIndex and the selection that count separate presses of the arrow
\* leave, from every state, with and without a selection.
C35_RepeatedArrowsAsSeparatePresses ==
    [][\A direction \in {"LEFT", "RIGHT"} : \A count \in 2..MaxArrows :
          lastOp' = Op(direction \o "_REPEATED", count) =>
              /\ cw'.cursorIndex = separatePresses(cw, direction, count).cursorIndex
              /\ cw'.anchorIndex = separatePresses(cw, direction, count).anchorIndex]_vars


(***************************************************************************)
(* The terminal service on its own: calls of openTerminalOrBringToFront,   *)
(* the terminal profile, and the reports of the window                     *)
(***************************************************************************)
NextService ==
    \/ OpenTerminalOrBringToFront
    \/ CloseTerminal
    \/ ProvideTerminalProfile
    \/ \E terminal \in 1..(MaxOpenCalls + MaxProfileTerminals) : DidOpenTerminal(terminal)
    \/ CreationTimeout
    \/ \E terminal \in 1..(MaxOpenCalls + MaxProfileTerminals) : DidCloseTerminal(terminal)

SpecService == Init /\ [][NextService]_vars

\* every terminal the window made has been reported open and every timer
\* set on such a report has run
TerminalsSettled ==
    /\ service.opened = 1..service.windowTerminals
    /\ service.timers = 0

\* C36: once every terminal that was created has been reported open (and
\* the 100 ms timer of the report has run), every call of
\* openTerminalOrBringToFront made so far has returned.
C36_EveryOpenCallReturns ==
    TerminalsSettled => service.returned = 1..service.calls


(***************************************************************************)
(* Invariants of the command window's line and history                     *)
(***************************************************************************)
\* C37: the line starts with the current prompt, cursorIndex is between 0
\* and the length of the line without the prompt, and so is the selection
\* anchor when there is one.
C37_LineCursorAnchorInRange ==
    /\ startsWith(cw.currentPromptLine, cw.currentPrompt)
    /\ 0 <= cw.cursorIndex
    /\ cw.cursorIndex <= Len(cw.currentPromptLine) - Len(cw.currentPrompt)
    /\ cw.anchorIndex # Undefined =>
          /\ 0 <= cw.anchorIndex
          /\ cw.anchorIndex <= Len(cw.currentPromptLine) - Len(cw.currentPrompt)


\* a selection from the end of the typed text back to its start, after the
\* idle prompt
C37_Witness ==
    /\ lastOp.name = "SHIFT_HOME"
    /\ cw.currentPrompt = IDLE_PROMPT
    /\ cw.cursorIndex = 0
    /\ cw.anchorIndex = getMaxIndexOnLine(cw)
    /\ cw.anchorIndex = 2


\* C38: historyIndex is between 0 and the length of the filtered history,
\* and every entry of the filtered history is an entry of the raw history.
C38_HistoryPositionInRange ==
    /\ 0 <= cw.historyIndex
    /\ cw.historyIndex <= Len(cw.filteredCommandHistory)
    /\ \A i \in 1..Len(cw.filteredCommandHistory) :
          \E j \in 1..Len(cw.rawCommandHistory) :
              cw.filteredCommandHistory[i] = cw.rawCommandHistory[j]

\* a recall from a history filtered by the typed text: one of two commands
\* matches, and the position is at the start of the filtered history
C38_Witness ==
    /\ Len(cw.rawCommandHistory) = 2
    /\ Len(cw.filteredCommandHistory) = 1
    /\ cw.historyIndex = 0
    /\ stripCurrentPrompt(cw) = cw.filteredCommandHistory[1]


(***************************************************************************)
(* The debugging flag of the session.  debugging.log records, in order,    *)
(* the values the DebuggingStateChange notifications carried ("true",      *)
(* "false") and the connections and disconnections of the session.         *)
(***************************************************************************)
MaxSessionEvents == 4

\* the listener of Notification.DebuggingStateChange in MVM's constructor
onDebuggingStateChange(d, value) ==
    [d EXCEPT !.isCurrentlyDebugging = value,
              !.log = Append(@, IF value THEN "true" ELSE "false")]

DebuggingStateChange(value) ==
    /\ Len(debugging.log) < MaxSessionEvents
    /\ debugging' = onDebuggingStateChange(debugging, value)
    /\ lastOp' = Op("debuggingStateChange", 0)
    /\ UNCHANGED <<mvmVars, cwVars, treeVars, term, debug, calls, observed, commands, service>>

\* what a state-change notification adds to the log
connectionLogged(oldState, newState) ==
    IF oldState = DISCONNECTED /\ newState # DISCONNECTED THEN <<"connected">>
    ELSE IF oldState # DISCONNECTED /\ newState = DISCONNECTED THEN <<"disconnected">>
    ELSE <<>>

\* a state-change notification: MVM._handleMatlabStateChange, which leaves
\* _isCurrentlyDebugging alone, and the command window's listener
SessionStateChanged(newState) ==
    /\ Len(debugging.log) < MaxSessionEvents
    /\ mvmHandleMatlabStateChange(newState)
    /\ cw' = cwHandleMatlabStateChange(cw, currentState, newState)
    /\ debugging' = [debugging EXCEPT
                        !.log = @ \o connectionLogged(currentState, newState)]
    /\ lastOp' = Op("stateChange", 0)
    /\ UNCHANGED <<nav, scenarioB, treeVars, term, debug, calls, observed, commands, service>>

NextDebugging ==
    \/ \E value \in BOOLEAN : DebuggingStateChange(value)
    \/ \E newState \in MatlabState : SessionStateChanged(newState)

SpecDebugging == Init /\ [][NextDebugging]_vars

\* the last entry of the log that is a connection, 0 when there is none
LastConnected ==
    LET connections == {i \in 1..Len(debugging.log) : debugging.log[i] = "connected"}
    IN IF connections = {} THEN 0
       ELSE CHOOSE i \in connections : \A j \in connections : j <= i

\* C39: isDebugging() is true only if a debugging-state change to true was
\* received since the session last became connected, with no change to
\* false after it.
C39_DebuggingOnlySinceConnected ==
    isDebugging =>
        /\ LastConnected > 0
        /\ \E i \in (LastConnected + 1)..Len(debugging.log) :
              /\ debugging.log[i] = "true"
              /\ \A j \in (i + 1)..Len(debugging.log) : debugging.log[j] # "false"


(***************************************************************************)
(* A completion response after the line was reset.  The steps that reset   *)
(* the line record whether they did: lastOp.id is 1 after a clc and after  *)
(* a state change to another state, 0 after a notification of the state    *)
(* the command window already had.                                         *)
(***************************************************************************)
ResetInputs == {TextInput(<<"a">>), KeyInput("TAB")}

\* the clc event of the session: CommandWindow.clear
ResetClc ==
    /\ microtasks = <<>>
    /\ cw' = clear(cw)
    /\ lastOp' = Op("clc", 1)
    /\ UNCHANGED <<mvmVars, nav, scenarioB>>
    /\ UNCHANGED sideVars

\* a state-change notification, handled by the session and then by the
\* command window
ResetStateChanged(newState) ==
    /\ mvmHandleMatlabStateChange(newState)
    /\ cw' = cwHandleMatlabStateChange(cw, currentState, newState)
    /\ lastOp' = Op("stateChange", IF currentState = newState THEN 0 ELSE 1)
    /\ UNCHANGED <<nav, scenarioB>>
    /\ UNCHANGED sideVars

NextReset ==
    \/ \E data \in ResetInputs : TabInput(data)
    \/ \E requestId \in 0..(MaxTabRequests - 1), result \in CompletionLists :
            CompletionResponse(requestId, result)
    \/ ResetClc
    \/ \E newState \in MatlabState : ResetStateChanged(newState)
    \/ \E state \in IdlePromptStates : PromptChanged(state)

SpecReset == Init /\ [][NextReset]_vars

\* C40: a completion response that arrives right after a clc or a state
\* change reset the line, with the completion request still pending, leaves
\* the line the bare prompt.
C40_ResponseAfterResetLeavesLine ==
    [][(/\ lastOp.name \in {"clc", "stateChange"}
        /\ lastOp.id = 1
        /\ cw.pendingTabCompletionPromise = "pending"
        /\ lastOp'.name = "completionResponse") =>
            cw'.currentPromptLine = cw'.currentPrompt]_vars

====
